---- MODULE Spec2Model ----
(***************************************************************************)
(* Metadata store (sqlite_metadata_manager.py) and orphan cleanup          *)
(* (metadata_cleanup_manager.py) of the file server.                       *)
(*                                                                         *)
(* Paths, tags and patterns are TLA+ strings; the Python string operations *)
(* on them (substring test, basename, dirname, pathlib parent) are         *)
(* computed character by character.  Timestamps are clock readings in      *)
(* whole seconds; an ISO-8601 string of fixed width orders as its reading. *)
(* Python None and SQL NULL are the empty tuple, a present value v is the  *)
(* one-element tuple <<v>>.  INTEGER columns holding booleans hold 0 or 1. *)
(***************************************************************************)
EXTENDS Integers, Sequences, FiniteSets, TLC

VARIABLES
    file_metadata,       \* table file_metadata: set of rows
    file_tags,           \* table file_tags: set of [file_id, tag]
    directory_metadata,  \* table directory_metadata: set of rows
    cleanup_log,         \* table cleanup_log: sequence of rows, in id order
    cleanup_config,      \* table cleanup_config: the persisted key/value rows
    next_id,             \* AUTOINCREMENT sequence of file_metadata
    config,              \* MetadataCleanupManager.config (in memory)
    fs_files,            \* regular files under storage_root (relative paths)
    fs_dirs,             \* directories under storage_root (relative paths)
    backup_files,        \* content of the metadata_backup_*.json files
    now,                 \* the wall clock, in seconds
    running,             \* MetadataCleanupManager._running
    saving,              \* the save_metadata calls between two of their statements
    scheduler,           \* the tasks running start_scheduled_cleanup
    cleaning,            \* the cleanup run between its check and its deletion
    temp_upload,         \* TEMP_UPLOAD_DIR: per temporary directory its chunk files
    file_data,           \* content of the files merged from chunks
    last                 \* the last call made and what it returned

vars == <<file_metadata, file_tags, directory_metadata, cleanup_log,
          cleanup_config, next_id, config, fs_files, fs_dirs, backup_files,
          now, running, saving, scheduler, cleaning, temp_upload, file_data,
          last>>

store_vars == <<file_metadata, file_tags, directory_metadata, cleanup_log,
                cleanup_config, next_id>>

-----------------------------------------------------------------------------
(* Bounds of the model.                                                    *)

MaxRows == 2        \* file_metadata rows ever inserted in one behaviour
MaxClock == 1       \* last clock reading
MaxLog == 2         \* cleanup_log rows written in one behaviour

-----------------------------------------------------------------------------
(* Python values.                                                          *)

None == <<>>
Some(v) == <<v>>
IsNone(o) == Len(o) = 0
Val(o) == o[1]

int(b) == IF b THEN 1 ELSE 0
bool(i) == i # 0

Min(a, b) == IF a < b THEN a ELSE b
Max(a, b) == IF a > b THEN a ELSE b

Range(s) == {s[i] : i \in 1..Len(s)}

\* list[:n] of Python, for any integer n
SliceTo(s, n) ==
    IF n >= 0 THEN SubSeq(s, 1, Min(n, Len(s)))
    ELSE SubSeq(s, 1, Max(Len(s) + n, 0))

-----------------------------------------------------------------------------
(* String operations.                                                      *)

CharAt(s, i) == SubSeq(s, i, i)

\* Python: p in s
Contains(p, s) ==
    \E i \in 1..(Len(s) - Len(p) + 1) : SubSeq(s, i, i + Len(p) - 1) = p

\* Python: s.endswith(suf)
EndsWith(s, suf) ==
    /\ Len(suf) <= Len(s)
    /\ SubSeq(s, Len(s) - Len(suf) + 1, Len(s)) = suf

\* index of the last "/" of s, 0 when there is none (s.rfind('/') + 1)
LastSlash(s) ==
    LET idx == {i \in 1..Len(s) : CharAt(s, i) = "/"}
    IN  IF idx = {} THEN 0 ELSE CHOOSE i \in idx : \A j \in idx : j <= i

\* s.rstrip('/')
RECURSIVE RStripSlash(_)
RStripSlash(s) ==
    IF Len(s) > 0 /\ CharAt(s, Len(s)) = "/"
    THEN RStripSlash(SubSeq(s, 1, Len(s) - 1))
    ELSE s

\* os.path.basename (posixpath)
basename(p) == SubSeq(p, LastSlash(p) + 1, Len(p))

\* os.path.dirname (posixpath): the head up to the last slash, with its
\* trailing slashes stripped unless it consists of slashes only
dirname(p) ==
    LET head == SubSeq(p, 1, LastSlash(p))
    IN  IF Len(head) > 0 /\ RStripSlash(head) # "" THEN RStripSlash(head)
        ELSE head


\* first index of "/" in s, 0 when there is none
FirstSlash(s) ==
    LET idx == {i \in 1..Len(s) : CharAt(s, i) = "/"}
    IN  IF idx = {} THEN 0 ELSE CHOOSE i \in idx : \A j \in idx : i <= j

\* s.split('/')
RECURSIVE SplitSlash(_)
SplitSlash(s) ==
    IF FirstSlash(s) = 0 THEN <<s>>
    ELSE <<SubSeq(s, 1, FirstSlash(s) - 1)>>
             \o SplitSlash(SubSeq(s, FirstSlash(s) + 1, Len(s)))

\* '/'.join(parts)
RECURSIVE JoinSlash(_)
JoinSlash(parts) ==
    IF Len(parts) = 0 THEN ""
    ELSE IF Len(parts) = 1 THEN parts[1]
    ELSE parts[1] \o "/" \o JoinSlash(Tail(parts))

\* number of leading slashes of s
RECURSIVE LeadingSlashes(_)
LeadingSlashes(s) ==
    IF Len(s) > 0 /\ CharAt(s, 1) = "/"
    THEN 1 + LeadingSlashes(SubSeq(s, 2, Len(s)))
    ELSE 0

\* pathlib.PurePosixPath(s): the root and the parts after the root; empty
\* and "." components are dropped, exactly two leading slashes are kept
PathRoot(s) ==
    IF LeadingSlashes(s) = 0 THEN ""
    ELSE IF LeadingSlashes(s) = 2 THEN "//"
    ELSE "/"

PathParts(s) == SelectSeq(SplitSlash(s), LAMBDA c : c # "" /\ c # ".")

\* str(PurePosixPath) from a root and parts
PathStr(root, parts) ==
    IF root = "" /\ Len(parts) = 0 THEN "."
    ELSE root \o JoinSlash(parts)

\* str(Path(s).parent)
PathParent(s) ==
    IF Len(PathParts(s)) = 0 THEN PathStr(PathRoot(s), <<>>)
    ELSE PathStr(PathRoot(s), SubSeq(PathParts(s), 1, Len(PathParts(s)) - 1))

-----------------------------------------------------------------------------
(* SQLiteMetadataManager: the metadata store.                              *)

\* the tags in use, in the collation order of ORDER BY tag
TagOrder == <<"t1", "t2">>

\* the tags of S as a list in collation order
SortTags(S) == SelectSeq(TagOrder, LAMBDA t : t \in S)

\* a tag occurs twice in the list: the second INSERT violates UNIQUE(file_id, tag)
HasDuplicates(tags) == \E i, j \in 1..Len(tags) : i < j /\ tags[i] = tags[j]

\* dataclass FileMetadata
FileMetadata(filename, size, upload_time, last_modified, is_public, content_type, created_by, tags, description, notes, original_url, locked) ==
    [filename |-> filename, size |-> size, upload_time |-> upload_time,
     last_modified |-> last_modified, is_public |-> is_public,
     content_type |-> content_type, created_by |-> created_by, tags |-> tags,
     description |-> description, notes |-> notes,
     original_url |-> original_url, locked |-> locked]

\* SELECT id FROM file_metadata WHERE file_path = ?
get_file_id(fm, file_path) ==
    IF \E r \in fm : r.file_path = file_path
    THEN Some((CHOOSE r \in fm : r.file_path = file_path).id)
    ELSE None

\* the column values written by the UPDATE and the INSERT of save_metadata
FileRow(id, file_path, m, created_at, updated_at) ==
    [id |-> id, filename |-> m.filename, file_path |-> file_path,
     size |-> m.size, upload_time |-> m.upload_time,
     last_modified |-> m.last_modified, is_public |-> int(m.is_public),
     content_type |-> m.content_type, created_by |-> m.created_by,
     description |-> m.description, notes |-> m.notes,
     original_url |-> m.original_url, locked |-> int(m.locked),
     created_at |-> created_at, updated_at |-> updated_at]

\* the tags written for file_id by the INSERT loop of save_metadata
TagRows(file_id, tags) == {[file_id |-> file_id, tag |-> t] : t \in Range(tags)}

\* next value of the AUTOINCREMENT sequence: ids are never reused
NextRowId(nid) == nid + 1

\* save_metadata on tables fm, ft with sequence value nid at clock reading t.
\* A duplicate tag raises IntegrityError before the commit, and the
\* connection is closed without one: nothing of the call is stored.
save_metadata(fm, ft, nid, t, file_path, metadata) ==
    LET m == [metadata EXCEPT !.last_modified = t]
        file_id == get_file_id(fm, file_path)
    IN  IF HasDuplicates(m.tags)
        THEN [raised |-> TRUE, fm |-> fm, ft |-> ft, nid |-> nid, metadata |-> m]
        ELSE IF ~IsNone(file_id)
        THEN LET old == CHOOSE r \in fm : r.id = Val(file_id)
             IN  [raised |-> FALSE,
                  fm |-> (fm \ {old})
                         \cup {FileRow(old.id, old.file_path, m, old.created_at, t)},
                  ft |-> {x \in ft : x.file_id # old.id} \cup TagRows(old.id, m.tags),
                  nid |-> nid, metadata |-> m]
        ELSE [raised |-> FALSE,
              fm |-> fm \cup {FileRow(nid, file_path, m, t, t)},
              ft |-> ft \cup TagRows(nid, m.tags),
              nid |-> NextRowId(nid), metadata |-> m]

\* load_metadata that does not read the tags of the record
load_metadata_NoTags(fm, ft, file_path) ==
    IF ~\E r \in fm : r.file_path = file_path THEN None
    ELSE LET row == CHOOSE r \in fm : r.file_path = file_path
         IN  Some(FileMetadata(row.filename, row.size, row.upload_time,
                               row.last_modified, bool(row.is_public),
                               row.content_type, row.created_by, <<>>,
                               row.description, row.notes, row.original_url,
                               bool(row.locked)))

\* load_metadata: None, or the record with its tags in ORDER BY tag order
load_metadata(fm, ft, file_path) ==
    IF ~\E r \in fm : r.file_path = file_path THEN None
    ELSE LET row == CHOOSE r \in fm : r.file_path = file_path
             file_id == get_file_id(fm, file_path)
             tags == IF ~IsNone(file_id)
                     THEN SortTags({x.tag : x \in {y \in ft : y.file_id = Val(file_id)}})
                     ELSE <<>>
         IN  Some(FileMetadata(row.filename, row.size, row.upload_time,
                               row.last_modified, bool(row.is_public),
                               row.content_type, row.created_by, tags,
                               row.description, row.notes, row.original_url,
                               bool(row.locked)))

\* update_metadata that returns the changed record without saving it
update_metadata_NoSave(fm, ft, nid, t, file_path, key, value) ==
    IF IsNone(load_metadata(fm, ft, file_path))
    THEN [ret |-> None, fm |-> fm, ft |-> ft, nid |-> nid]
    ELSE [ret |-> Some([Val(load_metadata(fm, ft, file_path)) EXCEPT ![key] = value]),
          fm |-> fm, ft |-> ft, nid |-> nid]

\* update_metadata(file_path, key=value): None without a record, else the
\* loaded record with the field set, saved and returned
update_metadata(fm, ft, nid, t, file_path, key, value) ==
    IF IsNone(load_metadata(fm, ft, file_path))
    THEN [ret |-> None, fm |-> fm, ft |-> ft, nid |-> nid]
    ELSE LET loaded == Val(load_metadata(fm, ft, file_path))
             metadata == IF key \in DOMAIN loaded
                         THEN [loaded EXCEPT ![key] = value] ELSE loaded
             s == save_metadata(fm, ft, nid, t, file_path, metadata)
         IN  [ret |-> Some(s.metadata), fm |-> s.fm, ft |-> s.ft, nid |-> s.nid]

\* one SELECT of get_directory_permission: the non-NULL is_public of the
\* row of directory_path, None when there is no row or the column is NULL
DirectoryIsPublic(dm, directory_path) ==
    IF \E d \in dm : d.directory_path = directory_path /\ ~IsNone(d.is_public)
    THEN Some(bool(Val((CHOOSE d \in dm : d.directory_path = directory_path).is_public)))
    ELSE None

\* one invocation of get_directory_permission never stopping at a
\* directory that is its own parent
GetDirectoryPermissionBody_NoRootTest(dm, directory_path) ==
    IF directory_path = "" \/ directory_path = "."
    THEN [returns |-> TRUE, value |-> None]
    ELSE IF ~IsNone(DirectoryIsPublic(dm, directory_path))
    THEN [returns |-> TRUE, value |-> DirectoryIsPublic(dm, directory_path)]
    ELSE [returns |-> FALSE, directory_path |-> PathParent(directory_path)]

\* one invocation of get_directory_permission: it returns a value, or it
\* calls itself on the parent directory and returns what that call returns
GetDirectoryPermissionBody(dm, directory_path) ==
    IF directory_path = "" \/ directory_path = "."
    THEN [returns |-> TRUE, value |-> None]
    ELSE IF ~IsNone(DirectoryIsPublic(dm, directory_path))
    THEN [returns |-> TRUE, value |-> DirectoryIsPublic(dm, directory_path)]
    ELSE IF PathParent(directory_path) # directory_path
    THEN [returns |-> FALSE, directory_path |-> PathParent(directory_path)]
    ELSE [returns |-> TRUE, value |-> None]

\* get_directory_permission run to its return
RECURSIVE get_directory_permission(_, _)
get_directory_permission(dm, directory_path) ==
    IF GetDirectoryPermissionBody(dm, directory_path).returns
    THEN GetDirectoryPermissionBody(dm, directory_path).value
    ELSE get_directory_permission(dm,
             GetDirectoryPermissionBody(dm, directory_path).directory_path)

\* create_metadata keeping the caller's is_public
InheritedOr_CallerWins(inherited_permission, is_public) == is_public

\* the is_public that create_metadata gives the new record
InheritedOr(inherited_permission, is_public) ==
    IF ~IsNone(inherited_permission) THEN Val(inherited_permission) ELSE is_public

\* create_metadata: the FileMetadata it builds and the save_metadata it makes
create_metadata(fm, ft, dm, nid, t, file_path, file_size, is_public, content_type, created_by, tags, description, notes, locked) ==
    save_metadata(fm, ft, nid, t, file_path,
        FileMetadata(basename(file_path), file_size, t, t,
                     InheritedOr(get_directory_permission(dm, dirname(file_path)),
                                 is_public),
                     IF IsNone(content_type) THEN "application/octet-stream"
                     ELSE Val(content_type),
                     created_by, tags, description, notes, None, locked))

\* DELETE FROM file_metadata WHERE file_path = ?  (foreign keys are not
\* enabled on the connection, so the tags of the row stay)
delete_metadata(fm, file_path) == {r \in fm : r.file_path # file_path}

\* the upsert of set_directory_permission
UpsertDirectoryPermission(dm, directory_path, is_public) ==
    IF \E d \in dm : d.directory_path = directory_path
    THEN {IF d.directory_path = directory_path
          THEN [d EXCEPT !.is_public = Some(int(is_public))] ELSE d : d \in dm}
    ELSE dm \cup {[directory_path |-> directory_path,
                   is_public |-> Some(int(is_public)), locked |-> 0]}

\* the upsert of set_directory_lock: a new row has is_public NULL
UpsertDirectoryLock(dm, directory_path, locked) ==
    IF \E d \in dm : d.directory_path = directory_path
    THEN {IF d.directory_path = directory_path
          THEN [d EXCEPT !.locked = int(locked)] ELSE d : d \in dm}
    ELSE dm \cup {[directory_path |-> directory_path,
                   is_public |-> None, locked |-> int(locked)]}

-----------------------------------------------------------------------------
(* MetadataCleanupManager: consistency check and orphan cleanup.           *)

\* CleanupConfig.__post_init__: the default exclude_patterns
DefaultExcludePatterns == <<".tmp", ".lock", ".temp", "~", "metadata_backup_", ".bak">>

\* dataclass CleanupConfig with its defaults
DefaultMaxOrphansPerRun == 1000
DefaultGracePeriod == 300
DefaultBatchSize == 100
DefaultScanInterval == 3600

CleanupConfig ==
    [enabled |-> TRUE, grace_period |-> DefaultGracePeriod,
     batch_size |-> DefaultBatchSize, scan_interval |-> DefaultScanInterval,
     max_orphans_per_run |-> DefaultMaxOrphansPerRun,
     backup_before_cleanup |-> TRUE,
     exclude_patterns |-> DefaultExcludePatterns]

\* _should_exclude_file matching a pattern at the start of the path only
should_exclude_file_PrefixOnly(exclude_patterns, file_path) ==
    \E i \in 1..Len(exclude_patterns) :
        /\ Len(exclude_patterns[i]) <= Len(file_path)
        /\ SubSeq(file_path, 1, Len(exclude_patterns[i])) = exclude_patterns[i]

\* _should_exclude_file: some pattern is a substring of the path
should_exclude_file(exclude_patterns, file_path) ==
    \E i \in 1..Len(exclude_patterns) : Contains(exclude_patterns[i], file_path)

\* (storage_root / file_path).exists(): files and directories both exist,
\* and the empty path and "." are the storage root itself
PathExists(files, dirs, file_path) ==
    file_path \in files \cup dirs \cup {"", "."}

\* _scan_filesystem keeping the .meta files
scan_filesystem_KeepsMeta(files, exclude_patterns) ==
    {f \in files : /\ basename(f) # "metadata.db"
                   /\ ~should_exclude_file(exclude_patterns, f)}

\* _scan_filesystem: the regular files of rglob("*") that are kept
scan_filesystem(files, exclude_patterns) ==
    {f \in files : /\ ~EndsWith(basename(f), ".meta")
                   /\ basename(f) # "metadata.db"
                   /\ ~should_exclude_file(exclude_patterns, f)}

\* IsOrphanRow without the existence test
IsOrphanRow_NoExistsTest(files, dirs, exclude_patterns, row) ==
    ~should_exclude_file(exclude_patterns, row.file_path)

\* the orphan test of check_consistency on one row of db_files
IsOrphanRow(files, dirs, exclude_patterns, row) ==
    /\ ~PathExists(files, dirs, row.file_path)
    /\ ~should_exclude_file(exclude_patterns, row.file_path)

\* check_consistency, db_files being the rows in the order the SELECT
\* returned them.  missing_metadata is kept as a set: the order of rglob is
\* the file system's.
check_consistency(fm, ft, files, dirs, cfg, db_files) ==
    [files_checked |-> Len(db_files),
     orphan_metadata |->
        LET orphans == SelectSeq(db_files,
                LAMBDA row : IsOrphanRow(files, dirs, cfg.exclude_patterns, row))
        IN  [i \in 1..Len(orphans) |->
                [id |-> orphans[i].id, file_path |-> orphans[i].file_path]],
     missing_metadata |->
        {f \in scan_filesystem(files, cfg.exclude_patterns) :
            IsNone(load_metadata(fm, ft, f))},
     errors |-> <<>>]

\* the orders in which SELECT id, file_path FROM file_metadata (no ORDER
\* BY) may return the rows
DbFiles(fm) ==
    {s \in [1..Cardinality(fm) -> fm] : \A i, j \in 1..Cardinality(fm) : s[i] = s[j] => i = j}

\* datetime.now().strftime('%Y%m%d_%H%M%S'): the digits of a clock reading
strftime(t) == ToString(t)

\* the name of the backup file written at clock reading t
BackupFileName(t) == "metadata_backup_" \o strftime(t) \o ".json"

\* _backup_orphan_metadata taking the tags of every file for each object
backup_orphan_metadata_AllTags(fm, ft, orphans) ==
    LET present == SelectSeq(orphans, LAMBDA o : \E r \in fm : r.id = o.id)
    IN  [i \in 1..Len(present) |->
            LET row == CHOOSE r \in fm : r.id = present[i].id
            IN  [id |-> row.id, file_path |-> row.file_path,
                 tags |-> SortTags({x.tag : x \in ft})]]

\* _backup_orphan_metadata: the list dumped to the backup file, one object
\* per orphan whose row is still there, the row's columns plus "tags"
backup_orphan_metadata(fm, ft, orphans) ==
    LET present == SelectSeq(orphans, LAMBDA o : \E r \in fm : r.id = o.id)
    IN  [i \in 1..Len(present) |->
            LET row == CHOOSE r \in fm : r.id = present[i].id
            IN  [id |-> row.id, filename |-> row.filename,
                 file_path |-> row.file_path, size |-> row.size,
                 upload_time |-> row.upload_time,
                 last_modified |-> row.last_modified,
                 is_public |-> row.is_public,
                 content_type |-> row.content_type,
                 created_by |-> row.created_by,
                 description |-> row.description, notes |-> row.notes,
                 original_url |-> row.original_url, locked |-> row.locked,
                 created_at |-> row.created_at, updated_at |-> row.updated_at,
                 tags |-> SortTags({x.tag : x \in {y \in ft : y.file_id = row.id}})]]

\* _delete_orphan_metadata deleting nothing
OrphanIds_None(orphans) == {}

\* _delete_orphan_metadata: the ids whose tags and row are deleted
OrphanIds(orphans) == {orphans[i].id : i \in 1..Len(orphans)}

\* the orphans a run works on: orphan_metadata[:max_orphans]
orphans_to_clean(orphan_metadata, max_orphans) == SliceTo(orphan_metadata, max_orphans)

\* the cap of a run: the argument, or config.max_orphans_per_run
EffectiveMaxOrphans(cfg, max_orphans) ==
    IF IsNone(max_orphans) THEN cfg.max_orphans_per_run ELSE Val(max_orphans)

\* the run deletes whenever there is something to clean
RunDeletes_IgnoresDryRun(dry_run, to_clean) == Len(to_clean) > 0

\* the run deletes: not a dry run and something to clean
RunDeletes(dry_run, to_clean) == ~dry_run /\ Len(to_clean) > 0

\* dry runs write a cleanup_log row too
RunLogs_DryRunsToo(dry_run) == TRUE

\* the run writes a cleanup_log row
RunLogs(dry_run) == ~dry_run

\* cleanup_type of a run
CleanupType(is_running) == IF is_running THEN "scheduled" ELSE "manual"

\* the CleanupResult of a run that raised nothing
CleanupResult(cleanup_type, report, to_clean, dry_run, backup_info, t) ==
    [cleanup_type |-> cleanup_type,
     files_checked |-> report.files_checked,
     orphans_found |-> Len(report.orphan_metadata),
     orphans_cleaned |-> IF RunDeletes(dry_run, to_clean) THEN Len(to_clean) ELSE 0,
     errors |-> Len(report.errors),
     start_time |-> t, end_time |-> t, duration |-> 0,
     details |->
        [backup |-> backup_info,
         dry_run |-> IF dry_run /\ Len(to_clean) > 0 THEN Some(TRUE) ELSE None,
         would_clean |-> IF dry_run /\ Len(to_clean) > 0 THEN Some(Len(to_clean))
                         ELSE None,
         orphan_files |-> [i \in 1..Len(to_clean) |-> to_clean[i].file_path]]]

-----------------------------------------------------------------------------
(* The state after construction: SQLiteMetadataManager.__init__ has        *)
(* created the storage root and metadata.db in it, and                     *)
(* MetadataCleanupManager.initialize has saved the default configuration.  *)

NoBackups == [n \in {} |-> <<>>]

\* no temporary directory, no chunk file, no merged file
NoChunks == [n \in {} |-> <<>>]

\* the callers that may be inside save_metadata at the same time
Callers == {1, 2}

\* no caller is inside save_metadata
NoCalls == [c \in Callers |-> [pc |-> "idle"]]

\* the tasks that calls of start_auto_cleanup create, in the order created
Tasks == {1, 2}

\* no cleanup run is between its check and its deletion
NoRun == [pc |-> "idle"]

\* the task has not been created
NoTask == [pc |-> "none", stopped_at |-> "", sleep |-> 0]

Init ==
    /\ file_metadata = {}
    /\ file_tags = {}
    /\ directory_metadata = {}
    /\ cleanup_log = <<>>
    /\ cleanup_config = CleanupConfig
    /\ next_id = 1
    /\ config = CleanupConfig
    /\ fs_files = {"metadata.db"}
    /\ fs_dirs = {}
    /\ backup_files = NoBackups
    /\ now = 0
    /\ running = FALSE
    /\ saving = NoCalls
    /\ scheduler = [i \in Tasks |-> NoTask]
    /\ cleaning = NoRun
    /\ temp_upload = NoChunks
    /\ file_data = NoChunks
    /\ last = [op |-> "init"]

-----------------------------------------------------------------------------
(* Inputs.                                                                 *)

\* the paths files are uploaded to
FilePaths == {"a.txt", "d/b.txt", "foo.tmp"}

\* the uploads made: a path and the tags given with it
Uploads == {<<"a.txt", <<"t2", "t1">> >>, <<"d/b.txt", <<>> >>, <<"foo.tmp", <<"t1">> >>}

\* the cleanup runs made: dry_run and the max_orphans argument
CleanupRuns == {<<TRUE, None>>, <<FALSE, None>>, <<FALSE, Some(1)>>, <<FALSE, Some(-1)>>}

\* values update_config sets max_orphans_per_run to
MaxOrphansPerRunValues == {0, DefaultMaxOrphansPerRun}

\* the directories above path p: its prefixes that end before a "/"
Ancestors(p) == {SubSeq(p, 1, i - 1) : i \in {j \in 2..Len(p) : CharAt(p, j) = "/"}}

\* utils.is_safe_path, for paths that os.path.normpath leaves as they are
is_safe_path(file_path) ==
    ~(Contains("..", file_path) \/ (Len(file_path) > 0 /\ CharAt(file_path, 1) = "/"))

\* a record as a handler builds it at clock reading t
NewFileMetadata(file_path, tags, is_public, locked, t) ==
    FileMetadata(basename(file_path), 0, t, t, is_public,
                 "application/octet-stream", None, tags, "", "", None, locked)

-----------------------------------------------------------------------------
(* Actions.                                                                *)

\* handle_unified_upload(file, filename, is_public, tags=tags): the file is
\* written (os.makedirs of its directory first) and create_metadata is
\* called; when that raises, the file is removed again
HandleUnifiedUpload(filename, is_public, tags) ==
    LET s == create_metadata(file_metadata, file_tags, directory_metadata,
                 next_id, now, filename, 0, is_public,
                 Some("application/octet-stream"), None, tags, "", "", FALSE)
    IN  /\ is_safe_path(filename)
        /\ ~PathExists(fs_files, fs_dirs, filename)
        /\ s.nid <= MaxRows + 1
        /\ fs_dirs' = fs_dirs \cup Ancestors(filename)
        /\ fs_files' = IF s.raised THEN fs_files ELSE fs_files \cup {filename}
        /\ file_metadata' = s.fm
        /\ file_tags' = s.ft
        /\ next_id' = s.nid
        /\ last' = [op |-> "handle_unified_upload"]
        /\ UNCHANGED <<directory_metadata, cleanup_log, cleanup_config, config,
                       backup_files, now, running, saving, scheduler, cleaning, temp_upload, file_data>>

\* a file is written under the storage root without the store being told
WriteFile(f) ==
    /\ ~PathExists(fs_files, fs_dirs, f)
    /\ fs_files' = fs_files \cup {f}
    /\ fs_dirs' = fs_dirs \cup Ancestors(f)
    /\ last' = [op |-> "write_file"]
    /\ UNCHANGED <<store_vars, config, backup_files, now, running, saving, scheduler, cleaning, temp_upload, file_data>>

\* a file disappears from the storage root without the store being told
RemoveFile(f) ==
    /\ f \in fs_files
    /\ fs_files' = fs_files \ {f}
    /\ last' = [op |-> "remove_file"]
    /\ UNCHANGED <<store_vars, config, fs_dirs, backup_files, now, running, saving, scheduler, cleaning, temp_upload, file_data>>

\* the clock advances
Tick ==
    /\ now < MaxClock
    /\ now' = now + 1
    /\ last' = [op |-> "tick"]
    /\ UNCHANGED <<store_vars, config, fs_files, fs_dirs, backup_files, running, saving, scheduler, cleaning, temp_upload, file_data>>

\* save_metadata(file_path, metadata)
SaveMetadata(file_path, metadata) ==
    LET s == save_metadata(file_metadata, file_tags, next_id, now, file_path, metadata)
    IN  /\ s.nid <= MaxRows + 1
        /\ file_metadata' = s.fm
        /\ file_tags' = s.ft
        /\ next_id' = s.nid
        /\ last' = [op |-> "save_metadata", file_path |-> file_path,
                    metadata |-> metadata, raised |-> s.raised]
        /\ UNCHANGED <<directory_metadata, cleanup_log, cleanup_config, config,
                       fs_files, fs_dirs, backup_files, now, running, saving, scheduler, cleaning, temp_upload, file_data>>

\* delete_metadata(file_path)
DeleteMetadata(file_path) ==
    /\ \E r \in file_metadata : r.file_path = file_path
    /\ file_metadata' = delete_metadata(file_metadata, file_path)
    /\ last' = [op |-> "delete_metadata"]
    /\ UNCHANGED <<file_tags, directory_metadata, cleanup_log, cleanup_config,
                   next_id, config, fs_files, fs_dirs, backup_files, now, running, saving, scheduler, cleaning, temp_upload, file_data>>

\* update_config(key=value): setattr on the configuration, then _save_config
UpdateConfig(key, value) ==
    /\ key \in DOMAIN config
    /\ config[key] # value
    /\ config' = [config EXCEPT ![key] = value]
    /\ cleanup_config' = config'
    /\ last' = [op |-> "update_config"]
    /\ UNCHANGED <<file_metadata, file_tags, directory_metadata, cleanup_log,
                   next_id, fs_files, fs_dirs, backup_files, now, running, saving, scheduler, cleaning, temp_upload, file_data>>

\* the tables a run may delete from, as they are before it starts
Snapshot == [file_metadata |-> file_metadata, file_tags |-> file_tags]

\* check_consistency()
CheckConsistency ==
    /\ \E db_files \in DbFiles(file_metadata) :
          last' = [op |-> "check_consistency",
                   report |-> check_consistency(file_metadata, file_tags,
                                  fs_files, fs_dirs, config, db_files)]
    /\ UNCHANGED <<store_vars, config, fs_files, fs_dirs, backup_files, now, running, saving, scheduler, cleaning, temp_upload, file_data>>

\* cleanup_orphan_metadata(dry_run, max_orphans): the consistency check,
\* the truncation, the backup, the deletion and the log row
CleanupOrphanMetadata(dry_run, max_orphans) ==
    /\ RunLogs(dry_run) => Len(cleanup_log) < MaxLog
    /\ \E db_files \in DbFiles(file_metadata) :
        LET report == check_consistency(file_metadata, file_tags, fs_files,
                                        fs_dirs, config, db_files)
            cap == EffectiveMaxOrphans(config, max_orphans)
            to_clean == orphans_to_clean(report.orphan_metadata, cap)
            deletes == RunDeletes(dry_run, to_clean)
            backs_up == deletes /\ config.backup_before_cleanup
            backup_file == BackupFileName(now)
            backup_data == backup_orphan_metadata(file_metadata, file_tags, to_clean)
            backup_info == IF backs_up
                           THEN Some([backup_file |-> backup_file,
                                      backup_count |-> Len(backup_data)])
                           ELSE None
            result == CleanupResult(CleanupType(running), report, to_clean,
                                    dry_run, backup_info, now)
        IN  /\ backup_files' =
                 IF backs_up
                 THEN [n \in DOMAIN backup_files \cup {backup_file} |->
                          IF n = backup_file THEN backup_data ELSE backup_files[n]]
                 ELSE backup_files
            /\ fs_files' = IF backs_up THEN fs_files \cup {backup_file} ELSE fs_files
            /\ file_metadata' =
                 IF deletes
                 THEN {r \in file_metadata : r.id \notin OrphanIds(to_clean)}
                 ELSE file_metadata
            /\ file_tags' =
                 IF deletes
                 THEN {x \in file_tags : x.file_id \notin OrphanIds(to_clean)}
                 ELSE file_tags
            /\ cleanup_log' = IF RunLogs(dry_run) THEN Append(cleanup_log, result)
                              ELSE cleanup_log
            /\ last' = [op |-> "cleanup_orphan_metadata", dry_run |-> dry_run,
                        max_orphans |-> max_orphans, pre |-> Snapshot,
                        report |-> report, result |-> result,
                        prev |-> IF last.op = "cleanup_orphan_metadata"
                                 THEN Some([dry_run |-> last.dry_run,
                                            max_orphans |-> last.max_orphans,
                                            pre |-> last.pre,
                                            result |-> last.result])
                                 ELSE None]
    /\ UNCHANGED <<directory_metadata, cleanup_config, next_id, config, fs_dirs,
                   now, running, saving, scheduler, cleaning, temp_upload, file_data>>

\* uploads, files lost behind the store's back, configuration changes,
\* consistency checks and cleanup runs
Next ==
    \/ \E u \in Uploads : HandleUnifiedUpload(u[1], FALSE, u[2])
    \/ \E f \in FilePaths : RemoveFile(f)
    \/ \E v \in MaxOrphansPerRunValues : UpdateConfig("max_orphans_per_run", v)
    \/ \E v \in BOOLEAN : UpdateConfig("backup_before_cleanup", v)
    \/ \E run \in CleanupRuns : CleanupOrphanMetadata(run[1], run[2])

Spec == Init /\ [][Next]_vars

\* the files written and the rows saved while the checker is exercised
CheckFiles == {"a.txt", "d/b.txt", "foo.tmp", "d/c.meta"}
CheckRows == {<<"a.txt", <<"t1">> >>, <<"d/b.txt", <<>> >>, <<"foo.tmp", <<>> >>}

\* values update_config sets exclude_patterns to
ExcludePatternsValues == {<<>>, DefaultExcludePatterns}

\* files and rows come and go independently, exclude_patterns changes, and
\* the consistency check is called
NextCheck ==
    \/ \E f \in CheckFiles : WriteFile(f)
    \/ \E f \in CheckFiles : RemoveFile(f)
    \/ \E u \in CheckRows : SaveMetadata(u[1], NewFileMetadata(u[1], u[2], FALSE, FALSE, now))
    \/ \E u \in CheckRows : DeleteMetadata(u[1])
    \/ \E v \in ExcludePatternsValues : UpdateConfig("exclude_patterns", v)
    \/ CheckConsistency

SpecCheck == Init /\ [][NextCheck]_vars

-----------------------------------------------------------------------------
(* Cleanup runs in which a step fails.                                     *)

\* what check_consistency returns when its connection to the store fails:
\* the exception is caught and its message put in errors
FailedCheck ==
    [files_checked |-> 0, orphan_metadata |-> <<>>, missing_metadata |-> {},
     errors |-> <<"check_consistency failed">>]

\* the index of the orphan whose DELETE statements fail in
\* _delete_orphan_metadata, 0 when none does
SkippedOrphan(to_clean, failure) ==
    IF failure.step \in {"delete_tags", "delete_row"} /\ failure.at <= Len(to_clean)
    THEN failure.at ELSE 0

\* the ids _delete_orphan_metadata deletes the row of
DeletedRowIds(to_clean, failure) ==
    {to_clean[i].id : i \in (1..Len(to_clean)) \ {SkippedOrphan(to_clean, failure)}}

\* the ids _delete_orphan_metadata deletes the tags of: the DELETE of the
\* tags comes first, so it is done when only the DELETE of the row fails
DeletedTagIds(to_clean, failure) ==
    IF failure.step = "delete_row" THEN OrphanIds(to_clean)
    ELSE DeletedRowIds(to_clean, failure)

\* the except branch of cleanup_orphan_metadata is not taken when the
\* backup raises
RaisedInTry_BackupIgnored(backs_up, deletes, failure) ==
    deletes /\ failure.step = "delete"

\* the try block of cleanup_orphan_metadata raises: in the backup, or in
\* the connect or the commit of _delete_orphan_metadata, which the backup
\* raising keeps from being called
RaisedInTry(backs_up, deletes, failure) ==
    \/ backs_up /\ failure.step = "backup"
    \/ deletes /\ failure.step = "delete"

\* cleanup_orphan_metadata(dry_run, max_orphans) with the step failure.step
\* failing: the rows and tags left, the backup written, the result, whether
\* the log row is written and whether the call raises
cleanup_orphan_metadata(fm, ft, files, dirs, cfg, is_running, t, db_files, dry_run, max_orphans, failure) ==
    LET report == IF failure.step = "check" THEN FailedCheck
                  ELSE check_consistency(fm, ft, files, dirs, cfg, db_files)
        to_clean == orphans_to_clean(report.orphan_metadata,
                                     EffectiveMaxOrphans(cfg, max_orphans))
        deletes == RunDeletes(dry_run, to_clean)
        backs_up == deletes /\ cfg.backup_before_cleanup
        raised_in_try == RaisedInTry(backs_up, deletes, failure)
        backup_done == backs_up /\ failure.step # "backup"
        deleted == deletes /\ ~raised_in_try
        backup_data == backup_orphan_metadata(fm, ft, to_clean)
        skipped == IF deleted THEN SkippedOrphan(to_clean, failure) ELSE 0
    IN  [fm |-> IF deleted
                THEN {r \in fm : r.id \notin DeletedRowIds(to_clean, failure)}
                ELSE fm,
         ft |-> IF deleted
                THEN {x \in ft : x.file_id \notin DeletedTagIds(to_clean, failure)}
                ELSE ft,
         backup_done |-> backup_done,
         backup_data |-> backup_data,
         to_clean |-> to_clean,
         logs |-> RunLogs(dry_run) /\ failure.step # "log",
         raised |-> RunLogs(dry_run) /\ failure.step = "log",
         failed |-> \/ failure.step = "check"
                    \/ raised_in_try
                    \/ skipped # 0
                    \/ RunLogs(dry_run) /\ failure.step = "log",
         result |->
            [cleanup_type |-> CleanupType(is_running),
             files_checked |-> report.files_checked,
             orphans_found |-> Len(report.orphan_metadata),
             orphans_cleaned |->
                IF deleted THEN Cardinality((1..Len(to_clean)) \ {skipped}) ELSE 0,
             errors |-> Len(report.errors) + (IF raised_in_try THEN 1 ELSE 0),
             start_time |-> t, end_time |-> t, duration |-> 0,
             details |->
                [errors |-> report.errors,
                 backup |-> IF backup_done
                            THEN Some([backup_file |-> BackupFileName(t),
                                       backup_count |-> Len(backup_data)])
                            ELSE None,
                 dry_run |-> IF dry_run /\ Len(to_clean) > 0 THEN Some(TRUE) ELSE None,
                 would_clean |-> IF dry_run /\ Len(to_clean) > 0
                                 THEN Some(Len(to_clean)) ELSE None,
                 orphan_files |->
                    IF raised_in_try THEN None
                    ELSE Some([i \in 1..Len(to_clean) |-> to_clean[i].file_path]),
                 cleanup_error |-> IF raised_in_try THEN Some(failure.step) ELSE None]]]

\* cleanup_orphan_metadata is called and the step failure.step of it fails
CleanupOrphanMetadataFailing(dry_run, max_orphans, failure) ==
    /\ Len(cleanup_log) < MaxLog
    /\ \E db_files \in DbFiles(file_metadata) :
        LET s == cleanup_orphan_metadata(file_metadata, file_tags, fs_files,
                     fs_dirs, config, running, now, db_files, dry_run,
                     max_orphans, failure)
        IN  /\ file_metadata' = s.fm
            /\ file_tags' = s.ft
            /\ backup_files' =
                 IF s.backup_done
                 THEN [n \in DOMAIN backup_files \cup {BackupFileName(now)} |->
                          IF n = BackupFileName(now) THEN s.backup_data
                          ELSE backup_files[n]]
                 ELSE backup_files
            /\ fs_files' = IF s.backup_done THEN fs_files \cup {BackupFileName(now)}
                           ELSE fs_files
            /\ cleanup_log' = IF s.logs THEN Append(cleanup_log, s.result)
                              ELSE cleanup_log
            /\ last' = [op |-> "cleanup_orphan_metadata", dry_run |-> dry_run,
                        max_orphans |-> max_orphans, failure |-> failure,
                        failed |-> s.failed, raised |-> s.raised,
                        to_clean |-> s.to_clean, pre |-> Snapshot,
                        result |-> s.result]
    /\ UNCHANGED <<directory_metadata, cleanup_config, next_id, config, fs_dirs,
                   now, running, saving, scheduler, cleaning, temp_upload, file_data>>

\* the steps of a run that fail, and the orphan at which a DELETE fails
Failures ==
    {[step |-> st, at |-> 0] : st \in {"none", "check", "backup", "delete", "log"}}
    \cup {[step |-> st, at |-> k] : st \in {"delete_tags", "delete_row"}, k \in 1..MaxRows}

\* the files uploaded, with their tags
FaultUploads == {<<"a.txt", <<"t2", "t1">> >>, <<"d/b.txt", <<>> >>}

\* the steps of a dry run that fail: it has no other step than the check
DryRunFailures == {f \in Failures : f.step \in {"none", "check"}}

\* uploads, files lost behind the store's back, and cleanup runs in which a
\* step may fail (backup_before_cleanup is on, as it is by default)
NextFault ==
    \/ \E u \in FaultUploads : HandleUnifiedUpload(u[1], TRUE, u[2])
    \/ \E u \in FaultUploads : RemoveFile(u[1])
    \/ \E f \in Failures : CleanupOrphanMetadataFailing(FALSE, None, f)
    \/ \E f \in DryRunFailures : CleanupOrphanMetadataFailing(TRUE, None, f)

SpecFault == Init /\ [][NextFault]_vars

-----------------------------------------------------------------------------
(* A cleanup run that other calls interleave with: check_consistency is    *)
(* awaited first, and the orphans it returned are backed up and deleted    *)
(* by id afterwards, whatever has happened to their files meanwhile.       *)

\* cleanup_orphan_metadata(dry_run=False) up to the return of
\* check_consistency and the truncation of its orphan list
CleanupOrphanMetadataChecks ==
    /\ cleaning.pc = "idle"
    /\ Len(cleanup_log) < MaxLog
    /\ \E db_files \in DbFiles(file_metadata) :
        LET report == check_consistency(file_metadata, file_tags, fs_files,
                                        fs_dirs, config, db_files)
            to_clean == orphans_to_clean(report.orphan_metadata,
                                         EffectiveMaxOrphans(config, None))
        IN  /\ cleaning' = [pc |-> "checked", report |-> report,
                            to_clean |-> to_clean,
                            cleanup_type |-> CleanupType(running), t |-> now]
            /\ last' = [op |-> "check_consistency", report |-> report]
    /\ UNCHANGED <<store_vars, config, fs_files, fs_dirs, backup_files, now,
                   running, saving, scheduler, temp_upload, file_data>>

\* the rest of the run: the backup, the deletion of the rows of to_clean
\* and the log row
CleanupOrphanMetadataDeletes ==
    /\ cleaning.pc = "checked"
    /\ LET to_clean == cleaning.to_clean
           deletes == RunDeletes(FALSE, to_clean)
           backs_up == deletes /\ config.backup_before_cleanup
           backup_file == BackupFileName(now)
           backup_data == backup_orphan_metadata(file_metadata, file_tags, to_clean)
           backup_info == IF backs_up
                          THEN Some([backup_file |-> backup_file,
                                     backup_count |-> Len(backup_data)])
                          ELSE None
           result == CleanupResult(cleaning.cleanup_type, cleaning.report,
                                   to_clean, FALSE, backup_info, cleaning.t)
           deleted == IF deletes
                      THEN {r \in file_metadata : r.id \in OrphanIds(to_clean)}
                      ELSE {}
       IN  /\ backup_files' =
                IF backs_up
                THEN [n \in DOMAIN backup_files \cup {backup_file} |->
                         IF n = backup_file THEN backup_data ELSE backup_files[n]]
                ELSE backup_files
           /\ fs_files' = IF backs_up THEN fs_files \cup {backup_file} ELSE fs_files
           /\ file_metadata' = file_metadata \ deleted
           /\ file_tags' =
                IF deletes
                THEN {x \in file_tags : x.file_id \notin OrphanIds(to_clean)}
                ELSE file_tags
           /\ cleanup_log' = Append(cleanup_log, result)
           /\ last' = [op |-> "delete_orphan_metadata", deleted |-> deleted,
                       files |-> fs_files, report |-> cleaning.report,
                       result |-> result]
    /\ cleaning' = NoRun
    /\ UNCHANGED <<directory_metadata, cleanup_config, next_id, config, fs_dirs,
                   now, running, saving, scheduler, temp_upload, file_data>>

\* the files uploaded, lost and uploaded again while cleanup runs
RaceFiles == {"a.txt", "d/b.txt"}

\* uploads and losses of files interleave with the two steps of a run
NextRace ==
    \/ \E f \in RaceFiles : HandleUnifiedUpload(f, TRUE, <<>>)
    \/ \E f \in RaceFiles : RemoveFile(f)
    \/ CleanupOrphanMetadataChecks
    \/ CleanupOrphanMetadataDeletes

SpecRace == Init /\ [][NextRace]_vars

\* cleanup runs with the backup switched on and off, in the same second
\* and in later seconds
NextBackups ==
    \/ \E f \in RaceFiles : HandleUnifiedUpload(f, FALSE, <<>>)
    \/ \E f \in RaceFiles : RemoveFile(f)
    \/ \E v \in BOOLEAN : UpdateConfig("backup_before_cleanup", v)
    \/ \E cap \in {None, Some(1)} : CleanupOrphanMetadata(FALSE, cap)
    \/ Tick

SpecBackups == Init /\ [][NextBackups]_vars

-----------------------------------------------------------------------------
(* The scheduler: start_auto_cleanup creates the task that runs            *)
(* start_scheduled_cleanup, stop_auto_cleanup calls                        *)
(* stop_scheduled_cleanup.  Each call of start_auto_cleanup creates a task *)
(* of its own.  A task is followed from one await to the next; its field   *)
(* stopped_at is the position it had when stop_scheduled_cleanup was first *)
(* called after its start ("" before).                                     *)

\* the sleep of the except branch, in seconds
BackoffSeconds == 60

\* start_auto_cleanup(): asyncio.create_task(start_scheduled_cleanup()); the
\* body of the coroutine has not run when the call returns
StartAutoCleanup(i) ==
    /\ scheduler[i].pc = "none"
    /\ \A j \in Tasks : j < i => scheduler[j].pc # "none"
    /\ scheduler' = [scheduler EXCEPT ![i].pc = "created"]
    /\ last' = [op |-> "start_auto_cleanup"]
    /\ UNCHANGED <<store_vars, config, fs_files, fs_dirs, backup_files, now,
                   running, saving, cleaning, temp_upload, file_data>>

\* the task starts: start_scheduled_cleanup returns at once when
\* config.enabled is false, else it sets _running and reaches the loop
StartScheduledCleanup(i) ==
    /\ scheduler[i].pc = "created"
    /\ IF ~config.enabled
       THEN /\ scheduler' = [scheduler EXCEPT ![i].pc = "done"]
            /\ UNCHANGED running
       ELSE /\ scheduler' = [scheduler EXCEPT ![i].pc = "loop"]
            /\ running' = TRUE
    /\ last' = [op |-> "start_scheduled_cleanup", enabled |-> config.enabled]
    /\ UNCHANGED <<store_vars, config, fs_files, fs_dirs, backup_files, now,
                   saving, cleaning, temp_upload, file_data>>

\* while self._running: the loop ends, or the iteration calls
\* cleanup_orphan_metadata(), which reads _running for its cleanup_type
\* before its first await
ScheduledLoopTest(i) ==
    /\ scheduler[i].pc = "loop"
    /\ scheduler' = [scheduler EXCEPT ![i].pc = IF running THEN "cleanup" ELSE "done"]
    /\ last' = [op |-> "while_running", running |-> running]
    /\ UNCHANGED <<store_vars, config, fs_files, fs_dirs, backup_files, now,
                   running, saving, cleaning, temp_upload, file_data>>

\* the cleanup of the iteration runs to its end: it returns and the task
\* sleeps scan_interval, or it raises and the task sleeps the backoff.  The
\* database has room for MaxLog log rows: the log write fails beyond that
ScheduledCleanup(i, failure) ==
    /\ scheduler[i].pc = "cleanup"
    /\ failure.step = "log" \/ Len(cleanup_log) < MaxLog
    /\ \E db_files \in DbFiles(file_metadata) :
        LET s == cleanup_orphan_metadata(file_metadata, file_tags, fs_files,
                     fs_dirs, config, TRUE, now, db_files, FALSE, None, failure)
        IN  /\ file_metadata' = s.fm
            /\ file_tags' = s.ft
            /\ backup_files' =
                 IF s.backup_done
                 THEN [n \in DOMAIN backup_files \cup {BackupFileName(now)} |->
                          IF n = BackupFileName(now) THEN s.backup_data
                          ELSE backup_files[n]]
                 ELSE backup_files
            /\ fs_files' = IF s.backup_done THEN fs_files \cup {BackupFileName(now)}
                           ELSE fs_files
            /\ cleanup_log' = IF s.logs THEN Append(cleanup_log, s.result)
                              ELSE cleanup_log
            /\ scheduler' = [scheduler EXCEPT
                                ![i].pc = "sleep",
                                ![i].sleep = IF s.raised THEN BackoffSeconds
                                          ELSE config.scan_interval]
            /\ last' = [op |-> "scheduled_cleanup", dry_run |-> FALSE,
                        raised |-> s.raised, enabled |-> config.enabled,
                        result |-> s.result]
    /\ UNCHANGED <<directory_metadata, cleanup_config, next_id, config, fs_dirs,
                   now, running, saving, cleaning, temp_upload, file_data>>

\* asyncio.sleep returns and the task is at the loop test again
ScheduledSleepEnds(i) ==
    /\ scheduler[i].pc = "sleep"
    /\ scheduler' = [scheduler EXCEPT ![i].pc = "loop", ![i].sleep = 0]
    /\ last' = [op |-> "sleep", seconds |-> scheduler[i].sleep]
    /\ UNCHANGED <<store_vars, config, fs_files, fs_dirs, backup_files, now,
                   running, saving, cleaning, temp_upload, file_data>>

\* stop_auto_cleanup(): stop_scheduled_cleanup() sets _running = False
StopAutoCleanup ==
    /\ \E i \in Tasks : scheduler[i].pc # "none"
    /\ running' = FALSE
    /\ scheduler' = [i \in Tasks |->
                        IF scheduler[i].pc # "none" /\ scheduler[i].stopped_at = ""
                        THEN [scheduler[i] EXCEPT !.stopped_at = scheduler[i].pc]
                        ELSE scheduler[i]]
    /\ last' = [op |-> "stop_scheduled_cleanup"]
    /\ UNCHANGED <<store_vars, config, fs_files, fs_dirs, backup_files, now,
                   saving, cleaning, temp_upload, file_data>>

\* what fails in a scheduled run: nothing, the check, or the log write
SchedulerFailures == {f \in Failures : f.step \in {"none", "check", "log"}}

\* the steps of the scheduler task i
SchedulerStep(i) ==
    \/ StartScheduledCleanup(i)
    \/ ScheduledLoopTest(i)
    \/ \E f \in SchedulerFailures : ScheduledCleanup(i, f)
    \/ ScheduledSleepEnds(i)

\* a file is uploaded and lost, automatic cleanup is switched on and off in
\* the configuration, the scheduler is started once and stopped
NextSched ==
    \/ HandleUnifiedUpload("a.txt", TRUE, <<>>)
    \/ RemoveFile("a.txt")
    \/ \E v \in BOOLEAN : UpdateConfig("enabled", v)
    \/ StartAutoCleanup(1)
    \/ StopAutoCleanup
    \/ SchedulerStep(1)

\* a cleanup run of the loop is not in flight for ever: it returns or
\* raises.  This is WF_vars(\E f \in SchedulerFailures : ScheduledCleanup(1, f)),
\* whose action is enabled whenever the task is at "cleanup"
RunInFlightEnds == []<>(scheduler[1].pc # "cleanup")

\* the event loop runs the task whenever it can run, a sleep ends, and a
\* run in flight ends
SchedulerFairness ==
    /\ WF_vars(StartScheduledCleanup(1))
    /\ WF_vars(ScheduledLoopTest(1))
    /\ WF_vars(ScheduledSleepEnds(1))
    /\ RunInFlightEnds

SpecSched == Init /\ [][NextSched]_vars /\ SchedulerFairness

\* a run in which no step fails
NoFailure == [step |-> "none", at |-> 0]

\* a file is uploaded and lost, start_auto_cleanup is called up to twice,
\* the scheduler is stopped, and cleanup_orphan_metadata is called directly
NextLoops ==
    \/ HandleUnifiedUpload("a.txt", TRUE, <<>>)
    \/ RemoveFile("a.txt")
    \/ \E i \in Tasks : StartAutoCleanup(i)
    \/ StopAutoCleanup
    \/ \E i \in Tasks : StartScheduledCleanup(i)
    \/ \E i \in Tasks : ScheduledLoopTest(i)
    \/ \E i \in Tasks : ScheduledCleanup(i, NoFailure)
    \/ \E i \in Tasks : ScheduledSleepEnds(i)
    \/ CleanupOrphanMetadataFailing(FALSE, None, NoFailure)

SpecLoops == Init /\ [][NextLoops]_vars

-----------------------------------------------------------------------------
(* Records saved and loaded.                                               *)

\* the files records are saved for
MetaPaths == {"a.txt", "d/b.txt"}

\* the tag lists of the records saved: json.loads of the tags form field
TagLists == {<<>>, <<"t1">>, <<"t2", "t1">>, <<"t1", "t1">>}

\* records are built at some time up to now and saved, rows are deleted,
\* and time passes
NextMeta ==
    \/ \E f \in MetaPaths, tags \in TagLists, x \in BOOLEAN, t \in 0..now :
           SaveMetadata(f, NewFileMetadata(f, tags, x, FALSE, t))
    \/ \E f \in MetaPaths : DeleteMetadata(f)
    \/ Tick

SpecMeta == Init /\ [][NextMeta]_vars

-----------------------------------------------------------------------------
(* Permission and lock of a file.                                          *)

\* set_file_permission(file_path, is_public)
SetFilePermission(file_path, is_public) ==
    LET s == update_metadata(file_metadata, file_tags, next_id, now,
                             file_path, "is_public", is_public)
    IN  /\ file_metadata' = s.fm
        /\ file_tags' = s.ft
        /\ next_id' = s.nid
        /\ last' = [op |-> "set_file_permission", file_path |-> file_path,
                    value |-> is_public, ret |-> ~IsNone(s.ret)]
        /\ UNCHANGED <<directory_metadata, cleanup_log, cleanup_config, config,
                       fs_files, fs_dirs, backup_files, now, running, saving, scheduler, cleaning, temp_upload, file_data>>

\* set_file_lock(file_path, locked)
SetFileLock(file_path, locked) ==
    LET s == update_metadata(file_metadata, file_tags, next_id, now,
                             file_path, "locked", locked)
    IN  /\ file_metadata' = s.fm
        /\ file_tags' = s.ft
        /\ next_id' = s.nid
        /\ last' = [op |-> "set_file_lock", file_path |-> file_path,
                    value |-> locked, ret |-> ~IsNone(s.ret)]
        /\ UNCHANGED <<directory_metadata, cleanup_log, cleanup_config, config,
                       fs_files, fs_dirs, backup_files, now, running, saving, scheduler, cleaning, temp_upload, file_data>>

\* the tag lists of the records whose permission and lock are set
FileTagLists == {<<>>, <<"t2", "t1">>}

\* records are saved and deleted, permissions and locks of files are set,
\* and time passes
NextFile ==
    \/ \E f \in MetaPaths, tags \in FileTagLists, x \in BOOLEAN :
           SaveMetadata(f, NewFileMetadata(f, tags, x, FALSE, now))
    \/ \E f \in MetaPaths : DeleteMetadata(f)
    \/ \E f \in MetaPaths, v \in BOOLEAN : SetFilePermission(f, v)
    \/ \E f \in MetaPaths, v \in BOOLEAN : SetFileLock(f, v)
    \/ Tick

SpecFile == Init /\ [][NextFile]_vars

\* records with every optional field filled in, as an upload from a URL
\* by a known user saves them
FilledRecords(file_path) ==
    {FileMetadata(basename(file_path), 0, 0, 0, x, "text/plain", Some("u"), tags, "d", "n", Some("http://h/" \o basename(file_path)), l) :
        x \in BOOLEAN, l \in BOOLEAN, tags \in FileTagLists}

\* filled records are saved, their permission and their lock are set, and
\* time passes
NextFrame ==
    \/ \E f \in MetaPaths : \E m \in FilledRecords(f) : SaveMetadata(f, m)
    \/ \E f \in MetaPaths, v \in BOOLEAN : SetFilePermission(f, v)
    \/ \E f \in MetaPaths, v \in BOOLEAN : SetFileLock(f, v)
    \/ Tick

SpecFrame == Init /\ [][NextFrame]_vars

-----------------------------------------------------------------------------
(* Directory records and permission inheritance.                           *)

\* (storage_root / directory_path) is a directory; "/" replaces the storage
\* root in the join and is the root of the file system
DirExists(dirs, directory_path) == directory_path \in dirs \cup {"/"}

\* set_directory_permission returns False without touching the store
SetDirectoryRefused(dirs, directory_path) ==
    \/ directory_path = ""
    \/ directory_path = "."
    \/ ~DirExists(dirs, directory_path)

\* handle_unified_mkdir(dir_path), on the path where it makes the directory
HandleUnifiedMkdir(dir_path) ==
    /\ dir_path # ""
    /\ is_safe_path(dir_path)
    /\ ~PathExists(fs_files, fs_dirs, dir_path)
    /\ fs_dirs' = fs_dirs \cup {dir_path} \cup Ancestors(dir_path)
    /\ last' = [op |-> "handle_unified_mkdir"]
    /\ UNCHANGED <<store_vars, config, fs_files, backup_files, now, running, saving, scheduler, cleaning, temp_upload, file_data>>

\* set_directory_permission(directory_path, is_public, apply_to_children=False)
SetDirectoryPermission(directory_path, is_public) ==
    /\ directory_metadata' =
         IF SetDirectoryRefused(fs_dirs, directory_path) THEN directory_metadata
         ELSE UpsertDirectoryPermission(directory_metadata, directory_path, is_public)
    /\ last' = [op |-> "set_directory_permission",
                ret |-> ~SetDirectoryRefused(fs_dirs, directory_path)]
    /\ UNCHANGED <<file_metadata, file_tags, cleanup_log, cleanup_config, next_id,
                   config, fs_files, fs_dirs, backup_files, now, running, saving, scheduler, cleaning, temp_upload, file_data>>

\* set_directory_lock(directory_path, locked, apply_to_children=False)
SetDirectoryLock(directory_path, locked) ==
    /\ directory_metadata' =
         IF SetDirectoryRefused(fs_dirs, directory_path) THEN directory_metadata
         ELSE UpsertDirectoryLock(directory_metadata, directory_path, locked)
    /\ last' = [op |-> "set_directory_lock",
                ret |-> ~SetDirectoryRefused(fs_dirs, directory_path)]
    /\ UNCHANGED <<file_metadata, file_tags, cleanup_log, cleanup_config, next_id,
                   config, fs_files, fs_dirs, backup_files, now, running, saving, scheduler, cleaning, temp_upload, file_data>>

\* create_metadata(file_path, 0, is_public=is_public, tags=tags, locked=locked)
CreateMetadata(file_path, is_public, tags, locked) ==
    LET s == create_metadata(file_metadata, file_tags, directory_metadata,
                 next_id, now, file_path, 0, is_public, None, None, tags,
                 "", "", locked)
    IN  /\ s.nid <= MaxRows + 1
        /\ file_metadata' = s.fm
        /\ file_tags' = s.ft
        /\ next_id' = s.nid
        /\ last' = [op |-> "create_metadata", file_path |-> file_path,
                    is_public |-> is_public, tags |-> tags, locked |-> locked,
                    raised |-> s.raised]
        /\ UNCHANGED <<directory_metadata, cleanup_log, cleanup_config, config,
                       fs_files, fs_dirs, backup_files, now, running, saving, scheduler, cleaning, temp_upload, file_data>>

\* get_directory_permission(directory_path) is called
GetDirectoryPermissionCall(directory_path) ==
    /\ last' = [op |-> "get_directory_permission", pc |-> "running",
                arg |-> directory_path, directory_path |-> directory_path]
    /\ UNCHANGED <<store_vars, config, fs_files, fs_dirs, backup_files, now, running, saving, scheduler, cleaning, temp_upload, file_data>>

\* a get_directory_permission call is between its call and its return
Walking == last.op = "get_directory_permission" /\ last.pc = "running"

\* the innermost invocation of the call in progress runs: it returns (and
\* with it every invocation below it), or it calls itself on the parent
GetDirectoryPermissionStep ==
    /\ Walking
    /\ LET b == GetDirectoryPermissionBody(directory_metadata, last.directory_path)
       IN  last' = IF b.returns
                   THEN [op |-> "get_directory_permission", pc |-> "returned",
                         arg |-> last.arg, result |-> b.value]
                   ELSE [last EXCEPT !.directory_path = b.directory_path]
    /\ UNCHANGED <<store_vars, config, fs_files, fs_dirs, backup_files, now, running, saving, scheduler, cleaning, temp_upload, file_data>>

\* the directories made and given a permission or a lock
Dirs == {"d", "d/e"}
PermissionDirs == {"", "d", "d/e", "/"}
LockDirs == {"d/e"}

\* the arguments get_directory_permission is called with
WalkArgs == {"", ".", "/", "/x", "d", "d/e", "d/e/f", "d/e/", "x/.."}

\* directories get permissions and locks, and get_directory_permission is
\* called and runs to its return before the next call
NextWalk ==
    \/ ~Walking /\ \E d \in Dirs : HandleUnifiedMkdir(d)
    \/ ~Walking /\ \E d \in PermissionDirs, v \in BOOLEAN : SetDirectoryPermission(d, v)
    \/ ~Walking /\ \E d \in LockDirs, v \in BOOLEAN : SetDirectoryLock(d, v)
    \/ ~Walking /\ \E d \in WalkArgs : GetDirectoryPermissionCall(d)
    \/ GetDirectoryPermissionStep

\* a call in progress is not abandoned: its next invocation does run
SpecWalk == Init /\ [][NextWalk]_vars /\ WF_vars(GetDirectoryPermissionStep)

\* the files metadata is created for
CreatePaths == {"a.txt", "d/e/c.txt"}

\* directories get permissions and locks, and metadata is created
NextDir ==
    \/ \E d \in Dirs : HandleUnifiedMkdir(d)
    \/ \E d \in PermissionDirs, v \in BOOLEAN : SetDirectoryPermission(d, v)
    \/ \E d \in LockDirs, v \in BOOLEAN : SetDirectoryLock(d, v)
    \/ \E f \in CreatePaths, x \in BOOLEAN, l \in BOOLEAN : CreateMetadata(f, x, <<>>, l)

SpecDir == Init /\ [][NextDir]_vars

-----------------------------------------------------------------------------
(* set_directory_permission with apply_to_children.                        *)

\* path p lies below directory d
IsBelow(d, p) == d \in Ancestors(p)

\* the items of rglob("*") that _apply_permission_to_children passes over
SkippedByWalk(p) ==
    \/ basename(p) \in {".DS_Store", "metadata.db"}
    \/ EndsWith(basename(p), ".meta")

\* the items below directory_path that the walk works on
WalkedItems(files, dirs, directory_path) ==
    {p \in files \cup dirs : IsBelow(directory_path, p) /\ ~SkippedByWalk(p)}

\* the loop of _apply_permission_to_children over items: set_file_permission
\* on a file, set_directory_permission without children on a directory
RECURSIVE apply_permission_to_children(_, _, _, _, _, _, _, _)
apply_permission_to_children(fm, ft, dm, nid, t, files, items, is_public) ==
    IF items = {} THEN [fm |-> fm, ft |-> ft, dm |-> dm, nid |-> nid]
    ELSE LET item == CHOOSE p \in items : TRUE
             u == update_metadata(fm, ft, nid, t, item, "is_public", is_public)
         IN  IF item \in files
             THEN apply_permission_to_children(u.fm, u.ft, dm, u.nid, t, files, items \ {item}, is_public)
             ELSE apply_permission_to_children(fm, ft, UpsertDirectoryPermission(dm, item, is_public), nid, t, files, items \ {item}, is_public)

\* set_directory_permission(directory_path, is_public, apply_to_children=True)
SetDirectoryPermissionApply(directory_path, is_public) ==
    LET refused == SetDirectoryRefused(fs_dirs, directory_path)
        s == apply_permission_to_children(file_metadata, file_tags,
                 UpsertDirectoryPermission(directory_metadata, directory_path, is_public),
                 next_id, now, fs_files,
                 WalkedItems(fs_files, fs_dirs, directory_path), is_public)
    IN  /\ file_metadata' = IF refused THEN file_metadata ELSE s.fm
        /\ file_tags' = IF refused THEN file_tags ELSE s.ft
        /\ directory_metadata' = IF refused THEN directory_metadata ELSE s.dm
        /\ next_id' = IF refused THEN next_id ELSE s.nid
        /\ last' = [op |-> "set_directory_permission", apply_to_children |-> TRUE,
                    directory_path |-> directory_path, is_public |-> is_public,
                    ret |-> ~refused,
                    pre |-> [file_metadata |-> file_metadata,
                             directory_metadata |-> directory_metadata]]
        /\ UNCHANGED <<cleanup_log, cleanup_config, config, fs_files, fs_dirs,
                       backup_files, now, running, saving, scheduler, cleaning, temp_upload, file_data>>

\* the files uploaded into the tree
TreeFiles == {"a.txt", "d/e/b.txt", "d/c.meta"}

\* the directories whose permission is set
TreeDirs == {"d", "d/e", "x"}

\* files are uploaded, a directory is made, permissions of directories are
\* set with and without their children
NextTree ==
    \/ \E f \in TreeFiles, x \in BOOLEAN : HandleUnifiedUpload(f, x, <<>>)
    \/ HandleUnifiedMkdir("d/k.meta")
    \/ \E v \in BOOLEAN : SetDirectoryPermission("d/e", v)
    \/ \E d \in TreeDirs, v \in BOOLEAN : SetDirectoryPermissionApply(d, v)

SpecTree == Init /\ [][NextTree]_vars

-----------------------------------------------------------------------------
(* Listing a directory.                                                    *)

\* get_directory_lock: None for the storage root, else the locked column of
\* the row of directory_path, False without a row
get_directory_lock(dm, directory_path) ==
    IF directory_path = "" \/ directory_path = "." THEN None
    ELSE IF \E d \in dm : d.directory_path = directory_path
    THEN Some(bool((CHOOSE d \in dm : d.directory_path = directory_path).locked))
    ELSE Some(FALSE)

\* dir_path.iterdir() with relative_to(storage_root): the files and the
\* directories that lie in directory
DirItems(files, dirs, directory) ==
    {p \in files \cup dirs : p # "" /\ dirname(p) = directory}

\* the orders iterdir can yield a set of items in
ItemOrders(items) ==
    {s \in [1..Cardinality(items) -> items] :
        \A i, j \in 1..Cardinality(items) : s[i] = s[j] => i = j}

\* the entry of a file of the listing
FileEntry(relative_path, metadata) ==
    [filename |-> relative_path, type |-> "file",
     is_public |-> metadata.is_public, tags |-> metadata.tags,
     locked |-> Some(metadata.locked)]

\* the entry of a directory of the listing
DirEntry(relative_path, is_public, dir_locked) ==
    [filename |-> relative_path, type |-> "directory",
     is_public |-> is_public, tags |-> <<>>, locked |-> dir_locked]

\* is_public of a directory entry: the inherited permission, or True
DirIsPublic(dir_permission) ==
    IF ~IsNone(dir_permission) THEN Val(dir_permission) ELSE TRUE

\* the two filters of the listing: the entry is dropped
Filtered_NoPrivateCheck(is_public, filter_public, user_can_access_private) ==
    ~IsNone(filter_public) /\ is_public # Val(filter_public)

\* the two filters of the listing: the entry is dropped
Filtered(is_public, filter_public, user_can_access_private) ==
    \/ ~IsNone(filter_public) /\ is_public # Val(filter_public)
    \/ ~is_public /\ ~user_can_access_private

\* one round of the loop of list_files_with_metadata, on item: st holds the
\* tables and the entries so far
ListItem(st, dm, t, files, item, filter_public, user_can_access_private) ==
    IF basename(item) \in {".DS_Store", "metadata.db"} \/ EndsWith(basename(item), ".meta")
    THEN st
    ELSE IF item \in files
    THEN LET loaded == load_metadata(st.fm, st.ft, item)
             c == create_metadata(st.fm, st.ft, dm, st.nid, t, item, 0, FALSE,
                                  None, None, <<>>, "", "", FALSE)
             st1 == IF IsNone(loaded)
                    THEN [st EXCEPT !.fm = c.fm, !.ft = c.ft, !.nid = c.nid]
                    ELSE st
             metadata == IF IsNone(loaded) THEN c.metadata ELSE Val(loaded)
         IN  IF Filtered(metadata.is_public, filter_public, user_can_access_private)
             THEN st1
             ELSE [st1 EXCEPT !.ret = Append(@, FileEntry(item, metadata))]
    ELSE LET is_public == DirIsPublic(get_directory_permission(dm, item))
             dir_locked == get_directory_lock(dm, item)
         IN  IF Filtered(is_public, filter_public, user_can_access_private)
             THEN st
             ELSE [st EXCEPT !.ret = Append(@, DirEntry(item, is_public, dir_locked))]

\* the loop of list_files_with_metadata over the items as iterdir yields them
RECURSIVE ListItems(_, _, _, _, _, _, _)
ListItems(st, dm, t, files, items, filter_public, user_can_access_private) ==
    IF items = <<>> THEN st
    ELSE ListItems(ListItem(st, dm, t, files, Head(items), filter_public,
                            user_can_access_private),
                   dm, t, files, Tail(items), filter_public, user_can_access_private)

\* list_files_with_metadata(directory, filter_public, user_can_access_private)
\* with iterdir yielding items: the tables after it and the entries returned
list_files_with_metadata(fm, ft, dm, nid, t, files, dirs, directory, items, filter_public, user_can_access_private) ==
    IF directory # "" /\ ~DirExists(dirs, directory)
    THEN [fm |-> fm, ft |-> ft, nid |-> nid, ret |-> <<>>]
    ELSE ListItems([fm |-> fm, ft |-> ft, nid |-> nid, ret |-> <<>>], dm, t, files,
                   items, filter_public, user_can_access_private)

\* list_files_with_metadata is called
ListFilesWithMetadata(directory, filter_public, user_can_access_private) ==
    \E items \in ItemOrders(DirItems(fs_files, fs_dirs, directory)) :
        LET s == list_files_with_metadata(file_metadata, file_tags,
                     directory_metadata, next_id, now, fs_files, fs_dirs,
                     directory, items, filter_public, user_can_access_private)
        IN  /\ s.nid <= MaxRows + 1
            /\ file_metadata' = s.fm
            /\ file_tags' = s.ft
            /\ next_id' = s.nid
            /\ last' = [op |-> "list_files_with_metadata", directory |-> directory,
                        filter_public |-> filter_public,
                        user_can_access_private |-> user_can_access_private,
                        created |-> {r.file_path : r \in s.fm \ file_metadata},
                        ret |-> s.ret]
            /\ UNCHANGED <<directory_metadata, cleanup_log, cleanup_config, config,
                           fs_files, fs_dirs, backup_files, now, running, saving, scheduler, cleaning, temp_upload, file_data>>

\* the files written, the directories listed and the filters passed
ListFiles == {"a.txt", "d/b.txt", "d/c.meta"}
ListDirs == {"", "d", "x"}
FilterPublicValues == {None, Some(TRUE), Some(FALSE)}

\* files are uploaded or written without a record, permissions of files and
\* of the directory are set, and directories are listed
NextList ==
    \/ \E f \in ListFiles : WriteFile(f)
    \/ \E f \in ListFiles, x \in BOOLEAN : HandleUnifiedUpload(f, x, <<>>)
    \/ \E f \in ListFiles, v \in BOOLEAN : SetFilePermission(f, v)
    \/ \E v \in BOOLEAN : SetDirectoryPermission("d", v)
    \/ \E d \in ListDirs, fp \in FilterPublicValues, ucap \in BOOLEAN :
           ListFilesWithMetadata(d, fp, ucap)

SpecList == Init /\ [][NextList]_vars

-----------------------------------------------------------------------------
(* Calls of save_metadata that interleave.  A call reads the id of the row *)
(* of its path on a connection of its own (_get_file_id), and other calls  *)
(* run before it writes; its UPDATE or INSERT, the tag statements and the  *)
(* commit are one transaction of the database.                             *)

\* an INSERT into file_metadata that the table accepts whatever it holds
InsertRaises_NoUnique(fm, file_path) == FALSE

\* file_path TEXT NOT NULL UNIQUE: the INSERT raises IntegrityError
InsertRaises(fm, file_path) == \E r \in fm : r.file_path = file_path

\* the statements of save_metadata after file_id was read: the row of that
\* id is updated where it still exists and its tags are replaced, or a row
\* is inserted; an IntegrityError leaves the connection uncommitted
SaveMetadataStatements(fm, ft, nid, t, file_path, m, file_id) ==
    IF ~IsNone(file_id)
    THEN IF HasDuplicates(m.tags)
         THEN [raised |-> TRUE, fm |-> fm, ft |-> ft, nid |-> nid]
         ELSE [raised |-> FALSE,
               fm |-> {IF r.id = Val(file_id)
                       THEN FileRow(r.id, r.file_path, m, r.created_at, t)
                       ELSE r : r \in fm},
               ft |-> {x \in ft : x.file_id # Val(file_id)}
                      \cup TagRows(Val(file_id), m.tags),
               nid |-> nid]
    ELSE IF InsertRaises(fm, file_path) \/ HasDuplicates(m.tags)
         THEN [raised |-> TRUE, fm |-> fm, ft |-> ft, nid |-> nid]
         ELSE [raised |-> FALSE,
               fm |-> fm \cup {FileRow(nid, file_path, m, t, t)},
               ft |-> ft \cup TagRows(nid, m.tags),
               nid |-> NextRowId(nid)]

\* move_metadata whose UPDATE replaces the row that has the new path
move_metadata_Replaces(fm, t, old_path, new_path) ==
    LET moved == {r \in fm : r.file_path = old_path}
    IN  [ret |-> moved # {},
         fm |-> IF moved = {} THEN fm
                ELSE {r \in fm \ moved : r.file_path # new_path}
                     \cup {[r EXCEPT !.file_path = new_path,
                                     !.filename = basename(new_path),
                                     !.updated_at = t] : r \in moved}]

\* move_metadata(old_path, new_path): the UPDATE of the rows of old_path;
\* an IntegrityError is caught and False returned
move_metadata(fm, t, old_path, new_path) ==
    LET moved == {r \in fm : r.file_path = old_path}
    IN  IF moved # {} /\ \E r \in fm \ moved : r.file_path = new_path
        THEN [ret |-> FALSE, fm |-> fm]
        ELSE [ret |-> moved # {},
              fm |-> (fm \ moved)
                     \cup {[r EXCEPT !.file_path = new_path,
                                     !.filename = basename(new_path),
                                     !.updated_at = t] : r \in moved}]

\* caller c enters save_metadata(file_path, metadata)
EnterSaveMetadata(c, op, file_path, metadata) ==
    /\ saving[c].pc = "idle"
    /\ saving' = [saving EXCEPT ![c] =
                     [pc |-> "called", op |-> op, file_path |-> file_path,
                      metadata |-> [metadata EXCEPT !.last_modified = now],
                      t |-> now]]
    /\ last' = [op |-> op, step |-> "call"]
    /\ UNCHANGED <<store_vars, config, fs_files, fs_dirs, backup_files, now,
                   running, scheduler, cleaning, temp_upload, file_data>>

\* caller c calls save_metadata(file_path, metadata)
SaveMetadataCall(c, file_path, metadata) ==
    EnterSaveMetadata(c, "save_metadata", file_path, metadata)

\* caller c calls create_metadata(file_path, 0, is_public=is_public), which
\* builds the record and calls save_metadata
CreateMetadataCall(c, file_path, is_public) ==
    EnterSaveMetadata(c, "create_metadata", file_path,
        FileMetadata(basename(file_path), 0, now, now,
            InheritedOr(get_directory_permission(directory_metadata,
                                                 dirname(file_path)), is_public),
            "application/octet-stream", None, <<>>, "", "", None, FALSE))

\* caller c calls update_metadata(file_path, key=value): without a record
\* it returns None, else it calls save_metadata with the changed record
UpdateMetadataCall(c, file_path, key, value) ==
    LET loaded == load_metadata(file_metadata, file_tags, file_path)
    IN  /\ ~IsNone(loaded)
        /\ key \in DOMAIN Val(loaded)
        /\ EnterSaveMetadata(c, "update_metadata", file_path,
                             [Val(loaded) EXCEPT ![key] = value])

\* caller c lists the directory of the file file_path, finds no record of
\* it and calls create_metadata(file_path, size, is_public=False)
ListFilesWithMetadataCreates(c, file_path) ==
    /\ file_path \in fs_files
    /\ IsNone(load_metadata(file_metadata, file_tags, file_path))
    /\ CreateMetadataCall(c, file_path, FALSE)

\* caller c inside save_metadata awaits _get_file_id(file_path)
SaveMetadataGetFileId(c) ==
    /\ saving[c].pc = "called"
    /\ saving' = [saving EXCEPT ![c] =
                     [saving[c] EXCEPT !.pc = "read"] @@
                     [file_id |-> get_file_id(file_metadata, saving[c].file_path)]]
    /\ last' = [op |-> saving[c].op, step |-> "get_file_id"]
    /\ UNCHANGED <<store_vars, config, fs_files, fs_dirs, backup_files, now,
                   running, scheduler, cleaning, temp_upload, file_data>>

\* caller c inside save_metadata executes its statements and commits, or
\* raises
SaveMetadataCommit(c) ==
    /\ saving[c].pc = "read"
    /\ LET s == SaveMetadataStatements(file_metadata, file_tags, next_id,
                    saving[c].t, saving[c].file_path, saving[c].metadata,
                    saving[c].file_id)
       IN  /\ s.nid <= MaxRows + 1
           /\ file_metadata' = s.fm
           /\ file_tags' = s.ft
           /\ next_id' = s.nid
           /\ last' = [op |-> saving[c].op,
                       file_path |-> saving[c].file_path, step |-> "commit",
                       file_id |-> saving[c].file_id, raised |-> s.raised]
    /\ saving' = [saving EXCEPT ![c] = [pc |-> "idle"]]
    /\ UNCHANGED <<directory_metadata, cleanup_log, cleanup_config, config,
                   fs_files, fs_dirs, backup_files, now, running, scheduler, cleaning, temp_upload, file_data>>

\* move_metadata(old_path, new_path)
MoveMetadata(old_path, new_path) ==
    LET s == move_metadata(file_metadata, now, old_path, new_path)
    IN  /\ file_metadata' = s.fm
        /\ last' = [op |-> "move_metadata", old_path |-> old_path,
                    new_path |-> new_path, ret |-> s.ret]
        /\ UNCHANGED <<file_tags, directory_metadata, cleanup_log,
                       cleanup_config, next_id, config, fs_files, fs_dirs,
                       backup_files, now, running, saving, scheduler, cleaning, temp_upload, file_data>>

\* the paths records are saved under and moved between
SavePaths == {"a.txt", "d/b.txt"}

\* two callers save, create and update records and list a directory, their
\* calls interleaving at the awaits; records are moved and deleted
NextSave ==
    \/ WriteFile("a.txt")
    \/ \E c \in Callers, f \in SavePaths :
           SaveMetadataCall(c, f, NewFileMetadata(f, <<>>, FALSE, FALSE, now))
    \/ \E f \in SavePaths : CreateMetadataCall(1, f, FALSE)
    \/ \E f \in SavePaths : UpdateMetadataCall(2, f, "locked", TRUE)
    \/ \E f \in SavePaths : ListFilesWithMetadataCreates(2, f)
    \/ \E c \in Callers : SaveMetadataGetFileId(c)
    \/ \E c \in Callers : SaveMetadataCommit(c)
    \/ \E f, g \in SavePaths : MoveMetadata(f, g)
    \/ \E f \in SavePaths : DeleteMetadata(f)

SpecSave == Init /\ [][NextSave]_vars

-----------------------------------------------------------------------------
(* set_file_permission and set_file_lock of two callers, interleaved at    *)
(* the awaits of update_metadata: the load, then inside save_metadata the  *)
(* read of the id and the statements with their commit.  Each call keeps   *)
(* the calls that returned while it was in flight (overlapped), which the  *)
(* program does not store.                                                 *)

\* the keyword set_file_permission / set_file_lock passes to update_metadata
UpdatedKey(op) == IF op = "set_file_permission" THEN "is_public" ELSE "locked"

\* caller c calls op(file_path, value): update_metadata awaits
\* load_metadata, returns None without a record (the call returns False),
\* else sets the attribute on the loaded record and enters save_metadata
UpdateMetadataLoads(c, op, file_path, value) ==
    LET loaded == load_metadata(file_metadata, file_tags, file_path)
    IN  /\ saving[c].pc = "idle"
        /\ IF IsNone(loaded)
           THEN /\ saving' = [saving EXCEPT ![c] = [pc |-> "idle"]]
                /\ last' = [op |-> op, step |-> "return", file_path |-> file_path,
                            value |-> value, ret |-> FALSE, overlapped |-> {}]
           ELSE /\ saving' = [saving EXCEPT ![c] =
                     [pc |-> "called", op |-> op, file_path |-> file_path,
                      metadata |-> [Val(loaded) EXCEPT ![UpdatedKey(op)] = value,
                                                       !.last_modified = now],
                      t |-> now, value |-> value, overlapped |-> {}]]
                /\ last' = [op |-> op, step |-> "call"]
        /\ UNCHANGED <<store_vars, config, fs_files, fs_dirs, backup_files, now,
                       running, scheduler, cleaning, temp_upload, file_data>>

\* caller c inside save_metadata executes its statements and commits;
\* update_metadata returns the record and the call returns True
UpdateMetadataReturns(c) ==
    /\ saving[c].pc = "read"
    /\ saving[c].op \in {"set_file_permission", "set_file_lock"}
    /\ LET s == SaveMetadataStatements(file_metadata, file_tags, next_id,
                    saving[c].t, saving[c].file_path, saving[c].metadata,
                    saving[c].file_id)
           returned == [op |-> saving[c].op, file_path |-> saving[c].file_path,
                        value |-> saving[c].value]
       IN  /\ s.nid <= MaxRows + 1
           /\ file_metadata' = s.fm
           /\ file_tags' = s.ft
           /\ next_id' = s.nid
           /\ last' = [op |-> saving[c].op, step |-> "return",
                       file_path |-> saving[c].file_path,
                       value |-> saving[c].value, ret |-> ~s.raised,
                       overlapped |-> saving[c].overlapped]
           /\ saving' = [d \in Callers |->
                  IF d = c THEN [pc |-> "idle"]
                  ELSE IF saving[d].pc # "idle" /\ ~s.raised
                       THEN [saving[d] EXCEPT !.overlapped = @ \cup {returned}]
                       ELSE saving[d]]
    /\ UNCHANGED <<directory_metadata, cleanup_log, cleanup_config, config,
                   fs_files, fs_dirs, backup_files, now, running, scheduler, cleaning, temp_upload, file_data>>

\* the operations of the two callers
SetOps == {"set_file_permission", "set_file_lock"}

\* records are saved; one caller sets the permission and the other the lock
\* of the records, their calls interleaving at the awaits
NextUpdates ==
    \/ \E f \in SavePaths : SaveMetadata(f, NewFileMetadata(f, <<"t1">>, FALSE, FALSE, now))
    \/ \E v \in BOOLEAN : UpdateMetadataLoads(1, "set_file_permission", "a.txt", v)
    \/ \E v \in BOOLEAN : UpdateMetadataLoads(2, "set_file_lock", "a.txt", v)
    \/ \E c \in Callers : SaveMetadataGetFileId(c)
    \/ \E c \in Callers : UpdateMetadataReturns(c)

SpecUpdates == Init /\ [][NextUpdates]_vars

\* the paths records are moved between: another directory, another name
MovePaths == {"a.txt", "d/a.txt", "d/b.txt"}

\* records with tags and every optional field are saved, moved and
\* deleted while the clock advances
NextMove ==
    \/ \E f \in MovePaths : \E m \in FilledRecords(f) :
           m.is_public /\ m.locked /\ SaveMetadata(f, m)
    \/ \E f, g \in MovePaths : MoveMetadata(f, g)
    \/ \E f \in MovePaths : DeleteMetadata(f)
    \/ Tick

SpecMove == Init /\ [][NextMove]_vars

-----------------------------------------------------------------------------
(* handle_unified_delete: the delete of a file or of a directory tree.     *)

\* is_directory_locked(directory_path)
is_directory_locked(dm, directory_path) ==
    IF IsNone(get_directory_lock(dm, directory_path)) THEN FALSE
    ELSE Val(get_directory_lock(dm, directory_path))

\* the code handle_unified_delete(filename, user_token) answers with,
\* "" when it deletes
DeleteCode(fm, ft, dm, files, dirs, filename, has_token) ==
    LET metadata == load_metadata(fm, ft, filename)
    IN  IF filename = "" THEN "MISSING_FILENAME"
        ELSE IF ~is_safe_path(filename) THEN "INVALID_PATH"
        ELSE IF ~PathExists(files, dirs, filename) THEN "PATH_NOT_FOUND"
        ELSE IF filename \in files
        THEN IF ~IsNone(metadata) /\ ~Val(metadata).is_public /\ ~has_token
             THEN "PERMISSION_DENIED"
             ELSE IF ~IsNone(metadata) /\ Val(metadata).locked THEN "FILE_LOCKED"
             ELSE ""
        ELSE IF is_directory_locked(dm, filename) THEN "DIRECTORY_LOCKED"
        ELSE ""

\* handle_unified_delete(filename, user_token): os.remove of a file and
\* delete_metadata of its record, or shutil.rmtree of a directory
HandleUnifiedDelete(filename, has_token) ==
    LET code == DeleteCode(file_metadata, file_tags, directory_metadata,
                           fs_files, fs_dirs, filename, has_token)
        removed == IF code # "" THEN {}
                   ELSE IF filename \in fs_files THEN {filename}
                   ELSE {f \in fs_files : IsBelow(filename, f)}
    IN  /\ fs_files' = fs_files \ removed
        /\ fs_dirs' = IF code = "" /\ filename \notin fs_files
                      THEN {d \in fs_dirs : d # filename /\ ~IsBelow(filename, d)}
                      ELSE fs_dirs
        /\ file_metadata' = IF code = "" /\ filename \in fs_files
                            THEN delete_metadata(file_metadata, filename)
                            ELSE file_metadata
        /\ last' = [op |-> "handle_unified_delete", filename |-> filename,
                    success |-> code = "", code |-> code, removed |-> removed,
                    locked |-> {r.file_path : r \in {x \in file_metadata : bool(x.locked)}}]
        /\ UNCHANGED <<file_tags, directory_metadata, cleanup_log, cleanup_config,
                       next_id, config, backup_files, now, running, saving,
                       scheduler, cleaning, temp_upload, file_data>>

\* the files uploaded and the paths deleted
DeleteFiles == {"a.txt", "d/e/b.txt"}
DeletePaths == DeleteFiles \cup {"d", "d/e", "", "/x", "nope"}

\* files are uploaded, files and directories are locked and unlocked, and
\* files and directories are deleted with and without a token
NextDelete ==
    \/ \E f \in DeleteFiles, x \in BOOLEAN : HandleUnifiedUpload(f, x, <<>>)
    \/ \E f \in DeleteFiles, v \in BOOLEAN : SetFileLock(f, v)
    \/ \E d \in {"d", "d/e"}, v \in BOOLEAN : SetDirectoryLock(d, v)
    \/ \E p \in DeletePaths, has_token \in BOOLEAN : HandleUnifiedDelete(p, has_token)

SpecDelete == Init /\ [][NextDelete]_vars

-----------------------------------------------------------------------------
(* The chunked upload: handle_chunk_upload stores chunk files in a         *)
(* temporary directory of the file, handle_chunk_complete merges them.     *)
(* The chunk_<i>.meta files of the temporary directory, which the merge    *)
(* does not read, and the size limit of a chunk are left out.              *)

\* hashlib.md5(...).hexdigest(): a digest that tells the inputs used apart
md5(data) == "md5(" \o data \o ")"

\* the name of the chunk file of index i
ChunkName(i) == "chunk_" \o ToString(i)

\* the directory dir with the file name written / removed
Put(dir, name, data) ==
    [n \in DOMAIN dir \cup {name} |-> IF n = name THEN data ELSE dir[n]]
Without(dir, name) == [n \in DOMAIN dir \ {name} |-> dir[n]]

\* the chunk files of the temporary directory temp_dir, none without it
ChunksOf(tmp, temp_dir) == IF temp_dir \in DOMAIN tmp THEN tmp[temp_dir] ELSE NoChunks

\* the code of handle_chunk_upload's parameter validation, "" when it passes
ChunkUploadRefusal(filename, chunk_index, total_chunks) ==
    IF filename = "" THEN "MISSING_FILENAME"
    ELSE IF chunk_index < 0 THEN "INVALID_CHUNK_INDEX"
    ELSE IF ~IsNone(total_chunks)
            /\ (Val(total_chunks) <= 0 \/ chunk_index >= Val(total_chunks))
    THEN "CHUNK_INDEX_OUT_OF_RANGE"
    ELSE IF ~is_safe_path(filename) THEN "INVALID_PATH"
    ELSE ""

\* handle_chunk_upload(file, filename, chunk_index, user_dir, total_chunks,
\* chunk_hash) with data the bytes of file
HandleChunkUpload(filename, chunk_index, total_chunks, data, chunk_hash) ==
    LET refusal == ChunkUploadRefusal(filename, chunk_index, total_chunks)
        temp_dir == md5(filename)
        chunk_file == ChunkName(chunk_index)
        dir == ChunksOf(temp_upload, temp_dir)
        already_exists ==
            /\ chunk_file \in DOMAIN dir
            /\ IsNone(chunk_hash) \/ md5(dir[chunk_file]) = Val(chunk_hash)
        mismatch == ~IsNone(chunk_hash) /\ md5(data) # Val(chunk_hash)
    IN  /\ temp_upload' =
             IF refusal # "" THEN temp_upload
             ELSE IF already_exists THEN Put(temp_upload, temp_dir, dir)
             ELSE IF mismatch
             THEN Put(temp_upload, temp_dir, Without(dir, chunk_file))
             ELSE Put(temp_upload, temp_dir, Put(dir, chunk_file, data))
        /\ last' = [op |-> "handle_chunk_upload", filename |-> filename,
                    chunk_index |-> chunk_index,
                    success |-> refusal = "" /\ (already_exists \/ ~mismatch),
                    code |-> IF refusal # "" THEN refusal
                             ELSE IF already_exists THEN ""
                             ELSE IF mismatch THEN "CHUNK_HASH_MISMATCH" ELSE ""]
        /\ UNCHANGED <<store_vars, config, fs_files, fs_dirs, backup_files, now,
                       running, saving, scheduler, cleaning, file_data>>

\* what the loop of handle_chunk_complete has written to the output file
\* when it ends: the chunks from index i on, up to the first missing one
RECURSIVE MergedChunks(_, _, _)
MergedChunks(dir, i, total_chunks) ==
    IF i >= total_chunks \/ ChunkName(i) \notin DOMAIN dir THEN ""
    ELSE dir[ChunkName(i)] \o MergedChunks(dir, i + 1, total_chunks)

\* the code handle_chunk_complete(filename, total_chunks, user_dir) answers
\* with, "" when it succeeds
ChunkCompleteCode(tmp, files, dirs, filename, total_chunks) ==
    IF filename = "" THEN "MISSING_FILENAME"
    ELSE IF ~is_safe_path(filename) THEN "INVALID_PATH"
    ELSE IF md5(filename) \notin DOMAIN tmp THEN "NO_CHUNKS_FOUND"
    ELSE IF PathExists(files, dirs, filename) THEN "FILE_EXISTS"
    ELSE IF \E i \in 0..(total_chunks - 1) : ChunkName(i) \notin DOMAIN tmp[md5(filename)]
    THEN "MISSING_CHUNK"
    ELSE ""

\* handle_chunk_complete(filename, total_chunks, user_dir): the output file
\* is opened for writing before the chunks are looked for
HandleChunkComplete(filename, total_chunks) ==
    LET code == ChunkCompleteCode(temp_upload, fs_files, fs_dirs, filename,
                                  total_chunks)
        temp_dir == md5(filename)
        opened == code \in {"", "MISSING_CHUNK"}
    IN  /\ fs_dirs' = IF code \in {"", "MISSING_CHUNK", "FILE_EXISTS"}
                      THEN fs_dirs \cup Ancestors(filename) ELSE fs_dirs
        /\ fs_files' = IF code = "" THEN fs_files \cup {filename, filename \o ".meta"}
                       ELSE IF opened THEN fs_files \cup {filename}
                       ELSE fs_files
        /\ file_data' =
             IF opened
             THEN Put(file_data, filename,
                      MergedChunks(temp_upload[temp_dir], 0, total_chunks))
             ELSE file_data
        /\ temp_upload' = IF code = "" THEN Without(temp_upload, temp_dir)
                          ELSE temp_upload
        /\ last' = [op |-> "handle_chunk_complete", filename |-> filename,
                    total_chunks |-> total_chunks, success |-> code = "",
                    code |-> code,
                    pre |-> [temp_upload |-> temp_upload, fs_files |-> fs_files]]
        /\ UNCHANGED <<store_vars, config, backup_files, now, running, saving,
                       scheduler, cleaning>>

\* the files uploaded in chunks, the chunk indexes and counts sent, the
\* bytes of a chunk and the hashes sent with it
ChunkedFiles == {"d/big.bin", ""}
ChunkIndexes == {-1, 0, 1}
ChunkTotals == {1, 2}
ChunkData == {"x", "y"}
ChunkHashes == {None, Some(md5("x"))}

\* chunks are uploaded in any order, with and without the count and the
\* hash, and complete is called at any time
NextChunks ==
    \/ \E f \in ChunkedFiles, i \in ChunkIndexes, n \in {None, Some(1)} :
         \E data \in ChunkData, h \in ChunkHashes : HandleChunkUpload(f, i, n, data, h)
    \/ \E f \in ChunkedFiles, n \in ChunkTotals : HandleChunkComplete(f, n)

SpecChunks == Init /\ [][NextChunks]_vars

-----------------------------------------------------------------------------
(* Vocabulary of the properties, stated on the tables and the file system  *)
(* without the operators of the cleanup manager.                           *)

\* pat occurs in str
IsSubstring(pat, str) ==
    \E a, b \in 0..Len(str) : a <= b /\ SubSeq(str, a + 1, b) = pat

\* the path matches an exclude pattern of the configuration
Excluded(file_path) ==
    \E pat \in Range(config.exclude_patterns) : IsSubstring(pat, file_path)

\* nothing exists at the path under the storage root
FileAbsent(file_path) == file_path \notin fs_files \cup fs_dirs

\* the rows of fm whose file is absent
AbsentRows(fm) == {r \in fm : FileAbsent(r.file_path)}

\* the rows of fm whose file is absent and whose path is not excluded
OrphanRows(fm) == {r \in fm : FileAbsent(r.file_path) /\ ~Excluded(r.file_path)}

\* id and file_path of a set of rows, as the checker reports them
Reported(rows) == {[id |-> r.id, file_path |-> r.file_path] : r \in rows}

\* the tag set of the row with this id in ft
TagSet(ft, id) == {x.tag : x \in {y \in ft : y.file_id = id}}

\* the orphan set a check_consistency call on the given state reports
CheckedOrphans(fm, ft, files, dirs, cfg) ==
    Range(check_consistency(fm, ft, files, dirs, cfg,
                            CHOOSE s \in DbFiles(fm) : TRUE).orphan_metadata)

IsCleanupRun == last.op = "cleanup_orphan_metadata"
IsRealRun == IsCleanupRun /\ ~last.dry_run

\* the cap of the last run
LastCap ==
    IF last.max_orphans = None THEN config.max_orphans_per_run
    ELSE last.max_orphans[1]

\* the rows the last run removed
DeletedRows == last.pre.file_metadata \ file_metadata

-----------------------------------------------------------------------------
(* C1 as stated: when the non-excluded orphans number at most the cap, the *)
(* check reports exactly the rows whose file is absent on disk; a real run *)
(* removes each of them, keeps every row whose file exists, and            *)
(* orphans_cleaned is the number reported.                                 *)
C1_AsStated ==
    (IsRealRun /\ Cardinality(OrphanRows(last.pre.file_metadata)) <= LastCap) =>
        /\ Range(last.report.orphan_metadata) = Reported(AbsentRows(last.pre.file_metadata))
        /\ \A o \in Range(last.report.orphan_metadata) :
              load_metadata(file_metadata, file_tags, o.file_path) = None
        /\ \A r \in last.pre.file_metadata :
              ~FileAbsent(r.file_path) => r \in file_metadata
        /\ last.result.orphans_cleaned = Len(last.report.orphan_metadata)

(* C1, amended: under the same condition the check reports exactly the     *)
(* rows whose file is absent on disk and whose path matches no exclude     *)
(* pattern; a real run removes each of them (load_metadata returns None),  *)
(* keeps every row whose file exists, and orphans_cleaned is the number    *)
(* reported.                                                               *)
C1_OrphansReportedAndCleaned ==
    (IsRealRun /\ Cardinality(OrphanRows(last.pre.file_metadata)) <= LastCap) =>
        /\ Range(last.report.orphan_metadata) = Reported(OrphanRows(last.pre.file_metadata))
        /\ Len(last.report.orphan_metadata) = Cardinality(OrphanRows(last.pre.file_metadata))
        /\ \A o \in Range(last.report.orphan_metadata) :
              load_metadata(file_metadata, file_tags, o.file_path) = None
        /\ \A r \in last.pre.file_metadata :
              ~FileAbsent(r.file_path) => r \in file_metadata
        /\ last.result.orphans_cleaned = Len(last.report.orphan_metadata)

\* a real run under the cap removed an orphan and kept a row whose file exists
C1_Witness ==
    /\ IsRealRun
    /\ Cardinality(OrphanRows(last.pre.file_metadata)) <= LastCap
    /\ OrphanRows(last.pre.file_metadata) # {}
    /\ \E r \in last.pre.file_metadata : ~FileAbsent(r.file_path)

(* C2: a dry run changes no table of the store and writes no backup file,  *)
(* and a consistency check after it reports the orphan set one before it   *)
(* reports.                                                                *)
C2_DryRunChangesNothing ==
    [][(last'.op = "cleanup_orphan_metadata" /\ last'.dry_run) =>
          /\ UNCHANGED <<file_metadata, file_tags, directory_metadata,
                         cleanup_log, cleanup_config>>
          /\ UNCHANGED <<backup_files, fs_files, fs_dirs>>
          /\ CheckedOrphans(file_metadata', file_tags', fs_files', fs_dirs', config')
               = CheckedOrphans(file_metadata, file_tags, fs_files, fs_dirs, config)]_vars

\* a dry run found an orphan it would clean
C2_Witness ==
    /\ IsCleanupRun /\ last.dry_run
    /\ last.result.details.would_clean # None
    /\ OrphanRows(file_metadata) # {}

\* what C3 says of the last run, for its N orphans and its cap
CapBoundsLastRun ==
        LET N == Cardinality(OrphanRows(last.pre.file_metadata))
            m == IF N < LastCap THEN N ELSE LastCap
            found == last.report.orphan_metadata
        IN  /\ Len(found) = N
            /\ Cardinality(DeletedRows) = m
            /\ last.result.orphans_cleaned = m
            /\ Reported(DeletedRows) = {found[i] : i \in 1..m}
            /\ CheckedOrphans(file_metadata, file_tags, fs_files, fs_dirs, config)
                 = {found[i] : i \in (m + 1)..N}
            /\ Cardinality(OrphanRows(file_metadata)) = N - m

(* C3 as stated: with N orphan rows and a cap k (the argument, or          *)
(* max_orphans_per_run without one) a real run deletes min(N, k) rows and  *)
(* reports that number as orphans_cleaned; the rows deleted are the first  *)
(* k the checker enumerated, and the next check reports the other          *)
(* N - min(N, k).                                                          *)
C3_AsStated == IsRealRun => CapBoundsLastRun

\* a real run with the cap -1 found two orphans and deleted one of them
C3_NegativeCapRun ==
    /\ IsRealRun
    /\ LastCap = -1
    /\ Cardinality(OrphanRows(last.pre.file_metadata)) = 2
    /\ Cardinality(DeletedRows) = 1
    /\ last.result.orphans_cleaned = 1

(* C3 for the caps k >= 0: the run deletes the first min(N, k) orphans     *)
(* enumerated, reports that number, and leaves the others to the next      *)
(* check.                                                                  *)
C3_CapBoundsTheRun == (IsRealRun /\ LastCap >= 0) => CapBoundsLastRun

\* a real run with more orphans than its positive cap
C3_Witness ==
    /\ IsRealRun
    /\ LastCap >= 1
    /\ Cardinality(OrphanRows(last.pre.file_metadata)) > LastCap
    /\ DeletedRows # {}

\* the last two calls were real runs, one right after the other
TwoRealRunsInARow ==
    /\ IsRealRun
    /\ last.prev # None
    /\ ~last.prev[1].dry_run

\* the orphans present before the first of the two runs
FirstRunOrphans == OrphanRows(last.prev[1].pre.file_metadata)

\* the cap of the first of the two runs
FirstRunCap ==
    IF last.prev[1].max_orphans = None THEN config.max_orphans_per_run
    ELSE last.prev[1].max_orphans[1]

(* C4 as stated: of two real runs in a row the first cleans the N orphans  *)
(* present before it and the second cleans none.                           *)
C4_AsStated ==
    (TwoRealRunsInARow /\ last.prev[1].max_orphans = None /\ last.max_orphans = None) =>
        /\ last.prev[1].result.orphans_cleaned = Cardinality(FirstRunOrphans)
        /\ last.result.orphans_cleaned = 0

(* C4, amended: of two real runs in a row, when the N non-excluded orphans *)
(* present before the first number at most its cap, the first cleans N     *)
(* and the second cleans none.                                             *)
C4_SecondRunCleansNothing ==
    (TwoRealRunsInARow /\ Cardinality(FirstRunOrphans) <= FirstRunCap) =>
        /\ last.prev[1].result.orphans_cleaned = Cardinality(FirstRunOrphans)
        /\ last.result.orphans_cleaned = 0
        /\ last.result.orphans_found = 0

\* two real runs in a row, the first of which had orphans within its cap
C4_Witness ==
    /\ TwoRealRunsInARow
    /\ FirstRunOrphans # {}
    /\ Cardinality(FirstRunOrphans) <= FirstRunCap

(* C5: a row whose path contains an exclude pattern is not reported as an  *)
(* orphan and not deleted by any cleanup run.                              *)
C5_ExcludedRowsAreKept ==
    IsCleanupRun =>
        \A r \in last.pre.file_metadata :
            Excluded(r.file_path) =>
                /\ r \in file_metadata
                /\ \A o \in Range(last.report.orphan_metadata) : o.id # r.id

\* a real run deleted a row while an excluded row's file was missing
C5_Witness ==
    /\ IsRealRun
    /\ DeletedRows # {}
    /\ \E r \in last.pre.file_metadata : Excluded(r.file_path) /\ FileAbsent(r.file_path)

(* C7: for every row a real run with backup_before_cleanup deleted, the    *)
(* backup file named in the run's result holds exactly one object with     *)
(* the row's file_path, and its tags are the tags the row had.             *)
C7_BackupHoldsDeletedRows ==
    (IsRealRun /\ config.backup_before_cleanup /\ DeletedRows # {}) =>
        /\ last.result.details.backup # None
        /\ last.result.details.backup[1].backup_file \in DOMAIN backup_files
        /\ last.result.details.backup[1].backup_file \in fs_files
        /\ \A r \in DeletedRows :
              LET data == backup_files[last.result.details.backup[1].backup_file]
                  hits == {i \in 1..Len(data) : data[i].file_path = r.file_path}
              IN  /\ Cardinality(hits) = 1
                  /\ \A i \in hits :
                        Range(data[i].tags) = TagSet(last.pre.file_tags, r.id)

\* a real run with backup deleted a tagged row while another row has other tags
C7_Witness ==
    /\ IsRealRun /\ config.backup_before_cleanup
    /\ \E r \in DeletedRows : TagSet(last.pre.file_tags, r.id) # {}
    /\ \E r \in last.pre.file_metadata :
          TagSet(last.pre.file_tags, r.id) \notin {TagSet(last.pre.file_tags, d.id) : d \in DeletedRows}

-----------------------------------------------------------------------------
\* the last component of a path
LastPart(file_path) == SplitSlash(file_path)[Len(SplitSlash(file_path))]

\* a *.meta file
IsMetaFile(file_path) == \E stem \in {SubSeq(file_path, 1, n) : n \in 0..Len(file_path)} :
                            stem \o ".meta" = file_path

\* the regular files under the storage root, other than metadata.db, *.meta
\* files and excluded paths, that have no row
MissingFiles ==
    {f \in fs_files : /\ LastPart(f) # "metadata.db"
                      /\ ~IsMetaFile(f)
                      /\ ~Excluded(f)
                      /\ \A r \in file_metadata : r.file_path # f}

(* C6: check_consistency returns the number of rows as files_checked, the  *)
(* rows whose file is absent and whose path matches no exclude pattern as  *)
(* orphan_metadata, and the regular files other than metadata.db, *.meta   *)
(* files and excluded paths that have no row as missing_metadata; on an    *)
(* empty store and an empty storage root every field is zero or empty.     *)
C6_ConsistencyReport ==
    last.op = "check_consistency" =>
        /\ last.report.files_checked = Cardinality(file_metadata)
        /\ Range(last.report.orphan_metadata) = Reported(OrphanRows(file_metadata))
        /\ Len(last.report.orphan_metadata) = Cardinality(OrphanRows(file_metadata))
        /\ last.report.missing_metadata = MissingFiles
        /\ (file_metadata = {} /\ fs_files \subseteq {"metadata.db"}) =>
              /\ last.report.files_checked = 0
              /\ last.report.orphan_metadata = <<>>
              /\ last.report.missing_metadata = {}
              /\ last.report.errors = <<>>

\* a check found an orphan and a missing file while a .meta file, an
\* excluded file without a row and an excluded row without a file were there
C6_Witness ==
    /\ last.op = "check_consistency"
    /\ last.report.orphan_metadata # <<>>
    /\ last.report.missing_metadata # {}
    /\ \E f \in fs_files : IsMetaFile(f)
    /\ \E r \in file_metadata : FileAbsent(r.file_path) /\ Excluded(r.file_path)

\* a check on the empty store and the empty storage root
C6_WitnessEmpty ==
    /\ last.op = "check_consistency"
    /\ file_metadata = {}
    /\ fs_files = {"metadata.db"}

-----------------------------------------------------------------------------
\* the chain p, parent(p), parent(parent(p)), ... up to the directory that
\* is its own parent
RECURSIVE AncestorChain(_)
AncestorChain(p) ==
    IF PathParent(p) = p THEN <<p>> ELSE <<p>> \o AncestorChain(PathParent(p))

\* the directories of the chain of p that have a record with is_public set
SettingsOnChain(p) ==
    {i \in 1..Len(AncestorChain(p)) :
        \E d \in directory_metadata :
            d.directory_path = AncestorChain(p)[i] /\ d.is_public # None}

\* is_public of the nearest directory of the chain of p that has one set
NearestSetting(p) ==
    IF SettingsOnChain(p) = {} THEN None
    ELSE LET i == CHOOSE k \in SettingsOnChain(p) : \A j \in SettingsOnChain(p) : k <= j
             d == CHOOSE r \in directory_metadata :
                      r.directory_path = AncestorChain(p)[i]
         IN  <<d.is_public[1] = 1>>

(* C9: every get_directory_permission call returns, and it returns the     *)
(* is_public of the nearest directory on the chain p, parent(p), ... that  *)
(* has a record with is_public set, None when no directory of the chain    *)
(* has one.                                                                *)
C9_PermissionWalkReturnsNearest ==
    /\ [](last.op = "get_directory_permission" /\ last.pc = "returned"
            => last.result = NearestSetting(last.arg))
    /\ (last.op = "get_directory_permission" /\ last.pc = "running")
          ~> (last.op = "get_directory_permission" /\ last.pc = "returned")

\* a call returned the setting of a directory two levels up, past a
\* directory whose record has is_public NULL
C9_Witness ==
    /\ last.op = "get_directory_permission" /\ last.pc = "returned"
    /\ last.arg = "d/e/f"
    /\ last.result # None
    /\ \E d \in directory_metadata : d.directory_path = "d/e" /\ d.is_public = None
    /\ \E d \in directory_metadata : d.directory_path = "d" /\ d.is_public # None

\* a call on the root of the file system returned None
C9_WitnessRoot ==
    /\ last.op = "get_directory_permission" /\ last.pc = "returned"
    /\ last.arg = "/x"
    /\ last.result = None

(* C8 as stated: after save_metadata(path, r), load_metadata(path) returns *)
(* a record whose tags are those of r and whose last_modified is at least  *)
(* the one of r.                                                           *)
C8_AsStated ==
    last.op = "save_metadata" =>
        LET rec == load_metadata(file_metadata, file_tags, last.file_path)
        IN  /\ rec # None
            /\ Range(rec[1].tags) = Range(last.metadata.tags)
            /\ Len(rec[1].tags) = Cardinality(Range(last.metadata.tags))
            /\ rec[1].last_modified >= last.metadata.last_modified

(* C8 for records whose tags are distinct: after save_metadata(path, r),    *)
(* load_metadata(path) returns a record with exactly the tags of r and a   *)
(* last_modified at least the one of r.                                    *)
C8_RoundTripOfDistinctTags ==
    (last.op = "save_metadata"
        /\ Len(last.metadata.tags) = Cardinality(Range(last.metadata.tags))) =>
        LET rec == load_metadata(file_metadata, file_tags, last.file_path)
        IN  /\ ~last.raised
            /\ rec # None
            /\ Range(rec[1].tags) = Range(last.metadata.tags)
            /\ Len(rec[1].tags) = Len(last.metadata.tags)
            /\ rec[1].last_modified >= last.metadata.last_modified

\* a record with the same tag twice was saved for a path that had a record
C8_DuplicateTagSaved ==
    /\ last.op = "save_metadata"
    /\ last.metadata.tags = <<"t1", "t1">>
    /\ load_metadata(file_metadata, file_tags, last.file_path) # None

\* the directory a file path lies in: the path without its last component
DirectoryOf(file_path) ==
    JoinSlash(SubSeq(SplitSlash(file_path), 1, Len(SplitSlash(file_path)) - 1))

(* C10: the record create_metadata stores has the is_public resolved from  *)
(* the directory of the path when there is one, the caller's is_public     *)
(* otherwise, and the caller's locked whatever locks the directories have. *)
C10_CreateInheritsPermissionOnly ==
    (last.op = "create_metadata" /\ ~last.raised) =>
        LET rec == load_metadata(file_metadata, file_tags, last.file_path)
        IN  /\ rec # None
            /\ rec[1].is_public =
                  IF NearestSetting(DirectoryOf(last.file_path)) # None
                  THEN NearestSetting(DirectoryOf(last.file_path))[1]
                  ELSE last.is_public
            /\ rec[1].locked = last.locked

\* a record was created unlocked under a locked directory, with the
\* permission of a directory above overriding the caller's
C10_Witness ==
    /\ last.op = "create_metadata" /\ ~last.raised
    /\ last.file_path = "d/e/c.txt"
    /\ ~last.locked
    /\ \E d \in directory_metadata : d.directory_path = "d/e" /\ d.locked = 1 /\ d.is_public = None
    /\ NearestSetting("d/e") # None
    /\ NearestSetting("d/e")[1] # last.is_public

-----------------------------------------------------------------------------
(* C11: set_file_permission and set_file_lock on a path without a record   *)
(* return False and leave every table as it was; on a path with a record   *)
(* they return True and load_metadata then shows the value set.            *)
C11_FileSettingNeedsARecord ==
    [][(last'.op \in {"set_file_permission", "set_file_lock"}) =>
          IF \E r \in file_metadata : r.file_path = last'.file_path
          THEN /\ last'.ret
               /\ \E r \in file_metadata' :
                     /\ r.file_path = last'.file_path
                     /\ last'.op = "set_file_permission" => (r.is_public = 1) = last'.value
                     /\ last'.op = "set_file_lock" => (r.locked = 1) = last'.value
               /\ load_metadata(file_metadata', file_tags', last'.file_path) # None
               /\ LET rec == load_metadata(file_metadata', file_tags', last'.file_path)[1]
                  IN  IF last'.op = "set_file_permission"
                      THEN rec.is_public = last'.value
                      ELSE rec.locked = last'.value
          ELSE /\ ~last'.ret
               /\ UNCHANGED store_vars]_vars

\* the lock of a file that had a record and was unlocked was set
C11_Witness ==
    /\ last.op = "set_file_lock" /\ last.ret /\ last.value
    /\ \E r \in file_metadata : r.file_path = last.file_path /\ r.locked = 1
    /\ \E r \in file_metadata : r.file_path # last.file_path

\* the permission of a path without a record was set, on a store with rows
C11_WitnessNoRecord ==
    /\ last.op = "set_file_permission" /\ ~last.ret
    /\ file_metadata # {}
    /\ ~\E r \in file_metadata : r.file_path = last.file_path

-----------------------------------------------------------------------------
\* the entries the last listing returned
Listed == {last.ret[i] : i \in 1..Len(last.ret)}

(* C12: a listing without private access returns no entry whose is_public  *)
(* is false, and no file whose record is private, whatever the filter and  *)
(* also for records the listing created; with filter_public set every      *)
(* entry returned has that is_public.                                      *)
C12_ListingHidesPrivate ==
    last.op = "list_files_with_metadata" =>
        /\ ~last.user_can_access_private =>
              \A e \in Listed :
                  /\ e.is_public
                  /\ e.type = "file" =>
                        \E r \in file_metadata : r.file_path = e.filename /\ r.is_public = 1
        /\ last.filter_public # None =>
              \A e \in Listed : e.is_public = last.filter_public[1]

\* a listing without private access returned a file whose record it created
\* (public by the permission of its directory) and a directory
C12_Witness ==
    /\ last.op = "list_files_with_metadata"
    /\ ~last.user_can_access_private
    /\ \E e \in Listed : e.type = "file" /\ e.filename \in last.created
    /\ \E r \in file_metadata : r.is_public = 0

\* a listing without private access created a private record and left it out
C12_WitnessDropped ==
    /\ last.op = "list_files_with_metadata"
    /\ ~last.user_can_access_private
    /\ \E f \in last.created : \A e \in Listed : e.filename # f

-----------------------------------------------------------------------------
\* in this step the log keeps the rows it has, in their places
LogKeepsItsRows ==
    /\ Len(cleanup_log') >= Len(cleanup_log)
    /\ SubSeq(cleanup_log', 1, Len(cleanup_log)) = cleanup_log

C13_WitnessNoOrphan ==
    /\ last.op = "cleanup_orphan_metadata" /\ ~last.dry_run /\ ~last.raised
    /\ last.result.orphans_found = 0 /\ last.result.errors = 0
    /\ Len(cleanup_log) = 1

(* C14 as stated: a run in which a step fails (check, backup, deletion,    *)
(* log write) does not raise; it returns a result whose errors count is    *)
(* incremented and whose details carry the message.                        *)
C14_AsStated ==
    (last.op = "cleanup_orphan_metadata" /\ last.failed) =>
        /\ ~last.raised
        /\ last.result.errors >= 1
        /\ \/ last.result.details.errors # <<>>
           \/ last.result.details.cleanup_error # None

\* a real run deleted a row and then raised out of its log write
C14_LogWriteRaised ==
    /\ last.op = "cleanup_orphan_metadata" /\ last.raised
    /\ last.failure.step = "log"
    /\ DeletedRows # {}
    /\ cleanup_log = <<>>

(* C14 for the failures of the check, of the backup and of the connect or  *)
(* commit of the deletion: the run returns a result with errors            *)
(* incremented and the message in its details.                             *)
C14_CaughtFailuresAreReported ==
    (last.op = "cleanup_orphan_metadata" /\ last.failed
        /\ last.failure.step \in {"check", "backup", "delete"}) =>
        /\ ~last.raised
        /\ last.result.errors >= 1
        /\ \/ last.result.details.errors # <<>>
           \/ last.result.details.cleanup_error # None

(* C17 as stated: when the deletion of one orphan fails in a real run,     *)
(* that orphan is not counted in orphans_cleaned and errors is incremented *)
(* for it.                                                                 *)
C17_AsStated ==
    (last.op = "cleanup_orphan_metadata" /\ last.failed
        /\ last.failure.step \in {"delete_tags", "delete_row"}) =>
        /\ last.result.orphans_cleaned = Len(last.to_clean) - 1
        /\ last.result.errors >= 1

\* the deletion of the first of two orphans failed: one row went, the other
\* stayed, and the result counts one cleaned and no error
C17_DeleteFailureNotCounted ==
    /\ last.op = "cleanup_orphan_metadata" /\ last.failed
    /\ last.failure.step = "delete_tags" /\ last.failure.at = 1
    /\ Len(last.to_clean) = 2
    /\ Cardinality(DeletedRows) = 1
    /\ \E r \in file_metadata : r.id = last.to_clean[1].id
    /\ last.result.orphans_cleaned = 1
    /\ last.result.errors = 0

(* C18: in a real run with backup_before_cleanup on, rows are deleted only *)
(* after the backup of the run is written, with every deleted row in it;   *)
(* when the backup fails the run deletes no row and no tag, reports        *)
(* orphans_cleaned = 0 and increments errors.                              *)
C18_BackupComesFirst ==
    (last.op = "cleanup_orphan_metadata" /\ ~last.dry_run
        /\ config.backup_before_cleanup) =>
        /\ DeletedRows # {} =>
              /\ last.result.details.backup # None
              /\ last.result.details.backup[1].backup_file \in DOMAIN backup_files
              /\ last.result.details.backup[1].backup_file \in fs_files
              /\ \A r \in DeletedRows :
                    \E i \in 1..Len(backup_files[last.result.details.backup[1].backup_file]) :
                        backup_files[last.result.details.backup[1].backup_file][i].file_path
                            = r.file_path
        /\ (last.failed /\ last.failure.step = "backup") =>
              /\ DeletedRows = {}
              /\ file_tags = last.pre.file_tags
              /\ last.result.orphans_cleaned = 0
              /\ last.result.errors >= 1
              /\ last.result.details.backup = None

\* the backup of a real run with two orphans failed
C18_Witness ==
    /\ last.op = "cleanup_orphan_metadata" /\ ~last.dry_run
    /\ last.failed /\ last.failure.step = "backup"
    /\ Len(last.to_clean) = 2
    /\ config.backup_before_cleanup

\* a real run wrote its backup and deleted a row
C18_WitnessDeleted ==
    /\ last.op = "cleanup_orphan_metadata" /\ ~last.dry_run
    /\ DeletedRows # {}
    /\ last.result.details.backup # None

-----------------------------------------------------------------------------
(* C15 as stated: every row of file_tags references a row of               *)
(* file_metadata; no tag of a record outlives it.                          *)
C15_AsStated ==
    \A x \in file_tags : \E r \in file_metadata : r.id = x.file_id

\* delete_metadata removed the record of a path and a tag of it is still in
\* file_tags
C15_TagsOutliveRecord ==
    /\ last.op = "delete_metadata"
    /\ file_metadata = {}
    /\ \E x \in file_tags : x.tag = "t1"

(* C16: whatever calls of save_metadata, create_metadata, update_metadata,*)
(* move_metadata and of the listing interleave, two saves of one new path  *)
(* included, no two rows of file_metadata have the same file_path.         *)
C16_OneRecordPerPath ==
    \A r1, r2 \in file_metadata : r1.file_path = r2.file_path => r1 = r2

\* two callers read that a path has no row, the first inserted it and the
\* INSERT of the second raised
C16_Witness ==
    /\ last.op = "save_metadata" /\ last.step = "commit"
    /\ IsNone(last.file_id) /\ last.raised
    /\ \E r \in file_metadata : r.file_path = last.file_path

\* a record was moved onto a path that has one: the move returned False
C16_WitnessMove ==
    /\ last.op = "move_metadata" /\ ~last.ret
    /\ last.old_path # last.new_path
    /\ \E r \in file_metadata : r.file_path = last.old_path
    /\ \E r \in file_metadata : r.file_path = last.new_path

\* stop_scheduled_cleanup was called after the start
StopCalled == scheduler[1].stopped_at # ""

\* the loop of the scheduler starts a cleanup run
StartsRun == scheduler[1].pc # "cleanup" /\ scheduler'[1].pc = "cleanup"

(* C19: once stop_scheduled_cleanup was called after the start, the run in *)
(* flight completes, the loop starts no further run, and the loop exits.   *)
C19_AsStated ==
    /\ [][scheduler[1].pc = "cleanup" /\ scheduler'[1].pc # "cleanup"
             => scheduler'[1].pc = "sleep" /\ last'.op = "scheduled_cleanup"]_vars
    /\ [][StopCalled => ~StartsRun]_vars
    /\ (StopCalled ~> scheduler[1].pc = "done")

\* stop was called between create_task and the first step of the task: the
\* task set _running afterwards and a cleanup run of the loop is in flight
C19_StopLost ==
    /\ scheduler[1].stopped_at = "created"
    /\ scheduler[1].pc = "cleanup"
    /\ running

\* a stop called once the task has set _running is honoured: the run in
\* flight completes, no run is started after the stop, the loop exits
C19_StopAfterEntryHonoured ==
    /\ [][scheduler[1].pc = "cleanup" /\ scheduler'[1].pc # "cleanup"
             => scheduler'[1].pc = "sleep" /\ last'.op = "scheduled_cleanup"]_vars
    /\ [][scheduler[1].stopped_at \in {"loop", "cleanup", "sleep"} => ~StartsRun]_vars
    /\ (scheduler[1].stopped_at \in {"loop", "cleanup", "sleep"}
          ~> scheduler[1].pc = "done")

\* what start_scheduled_cleanup does whether or not the configuration
\* changes later: disabled at the start it returns at once; else each run
\* is a real one followed by a sleep of scan_interval, or of the backoff
\* when the run raised, the loop ends only at its test with _running
\* false, and after each sleep a run follows unless the loop was stopped
C20_LoopShape ==
    /\ [][scheduler[1].pc = "created" /\ scheduler'[1].pc # "created"
             => IF config.enabled
                THEN scheduler'[1].pc = "loop" /\ running'
                ELSE /\ scheduler'[1].pc = "done" /\ ~running'
                     /\ UNCHANGED <<store_vars, fs_files, backup_files>>]_vars
    /\ [][scheduler[1].pc = "done" => scheduler'[1].pc = "done"]_vars
    /\ [][scheduler[1].pc = "cleanup" /\ scheduler'[1].pc # "cleanup"
             => /\ last'.op = "scheduled_cleanup"
                /\ IsNone(last'.result.details.dry_run)
                /\ last'.result.cleanup_type = "scheduled"
                /\ scheduler'[1].pc = "sleep"
                /\ scheduler'[1].sleep = IF last'.raised THEN BackoffSeconds
                                      ELSE config.scan_interval]_vars
    /\ [][scheduler[1].pc # "done" /\ scheduler'[1].pc = "done"
             => \/ scheduler[1].pc = "created" /\ ~config.enabled
                \/ scheduler[1].pc = "loop" /\ ~running]_vars
    /\ (scheduler[1].pc = "sleep" ~> (scheduler[1].pc = "cleanup" \/ ~running))

(* C20: the scheduler runs a cleanup only if config.enabled; started       *)
(* disabled it runs none and leaves _running false, started enabled it     *)
(* repeats a real cleanup and a sleep of scan_interval, and a run that     *)
(* raises is followed by a backoff of 60 seconds and a retry.              *)
C20_AsStated ==
    /\ [](last.op = "scheduled_cleanup" => last.enabled)
    /\ C20_LoopShape

\* the loop deleted the row of an orphan while config.enabled was false
C20_RunWhileDisabled ==
    /\ last.op = "scheduled_cleanup"
    /\ ~last.enabled
    /\ last.result.orphans_cleaned > 0

(* C21: the cleanup_type of a result and of its log row is "scheduled"    *)
(* exactly for the runs of the scheduler loop and "manual" exactly for the *)
(* runs a caller invoked, also while the scheduler loop is active.         *)
C21_AsStated ==
    /\ last.op = "cleanup_orphan_metadata" =>
          /\ last.result.cleanup_type = "manual"
          /\ cleanup_log[Len(cleanup_log)].cleanup_type = "manual"
    /\ last.op = "scheduled_cleanup" /\ ~last.raised =>
          /\ last.result.cleanup_type = "scheduled"
          /\ cleanup_log[Len(cleanup_log)].cleanup_type = "scheduled"

\* a caller invoked a run while a scheduler loop was sleeping, and the
\* result and the log row of that run say "scheduled"
C21_ManualRunLoggedScheduled ==
    /\ last.op = "cleanup_orphan_metadata"
    /\ \E i \in Tasks : scheduler[i].pc = "sleep"
    /\ last.result.cleanup_type = "scheduled"
    /\ cleanup_log[Len(cleanup_log)] = last.result

\* what the code records: the value of _running when the run starts
C21_TypeIsTheRunningFlag ==
    /\ last.op = "cleanup_orphan_metadata" =>
          last.result.cleanup_type = IF running THEN "scheduled" ELSE "manual"
    /\ last.op = "scheduled_cleanup" => last.result.cleanup_type = "scheduled"

\* the scheduler loop of task i is active
LoopActive(i) == scheduler[i].pc \in {"loop", "cleanup", "sleep"}

(* C24: whatever calls of start_auto_cleanup and stop_scheduled_cleanup    *)
(* are made, at most one scheduler loop is active, and no two scheduled    *)
(* cleanup runs are in flight together.                                   *)
C24_AsStated ==
    \A i, j \in Tasks : LoopActive(i) /\ LoopActive(j) => i = j

\* start was called twice: the runs of both loops are in flight together
C24_TwoRunsOverlap ==
    /\ scheduler[1].pc = "cleanup"
    /\ scheduler[2].pc = "cleanup"

\* stop, then start while the loop of the first start sleeps: the second
\* task set _running again and both loops go on
C24_StoppedLoopRevived ==
    /\ scheduler[1].stopped_at = "sleep"
    /\ scheduler[2].stopped_at = ""
    /\ scheduler[1].pc = "cleanup"
    /\ LoopActive(2)

\* the columns that set_file_permission may change
PermissionColumns == {"is_public", "last_modified", "updated_at"}

\* the columns that set_file_lock may change
LockColumns == {"locked", "last_modified", "updated_at"}

\* row r2 is row r but for the columns cols
SameBut(r, r2, cols) == \A c \in (DOMAIN r) \ cols : r2[c] = r[c]

(* C22: set_file_permission on a record changes its is_public and its      *)
(* timestamps and nothing else: locked, tags, description, notes,          *)
(* created_by and original_url stay, and so does every other record;       *)
(* set_file_lock changes locked and the timestamps and leaves is_public    *)
(* and the same other fields.                                              *)
C22_PermissionAndLockIndependent ==
    [][(last'.op \in {"set_file_permission", "set_file_lock"} /\ last'.ret) =>
          \E r \in file_metadata : \E r2 \in file_metadata' :
              /\ r.file_path = last'.file_path
              /\ r2.id = r.id
              /\ file_metadata' \ {r2} = file_metadata \ {r}
              /\ file_tags' = file_tags
              /\ load_metadata(file_metadata', file_tags', r.file_path)[1].tags
                   = load_metadata(file_metadata, file_tags, r.file_path)[1].tags
              /\ IF last'.op = "set_file_permission"
                 THEN /\ SameBut(r, r2, PermissionColumns)
                      /\ r2.is_public = int(last'.value)
                 ELSE /\ SameBut(r, r2, LockColumns)
                      /\ r2.locked = int(last'.value)]_vars

\* a locked, tagged, filled record was made public and is still locked
C22_Witness ==
    /\ last.op = "set_file_permission" /\ last.ret /\ last.value
    /\ \E r \in file_metadata :
          /\ r.file_path = last.file_path
          /\ r.is_public = 1 /\ r.locked = 1
          /\ r.description = "d" /\ r.created_by = Some("u")
          /\ r.updated_at > r.created_at
          /\ \E x \in file_tags : x.file_id = r.id

\* a public record was locked and is still public
C22_WitnessLock ==
    /\ last.op = "set_file_lock" /\ last.ret /\ last.value
    /\ \E r \in file_metadata :
          /\ r.file_path = last.file_path
          /\ r.is_public = 1 /\ r.locked = 1
          /\ \E x \in file_tags : x.file_id = r.id

\* the last call was set_directory_permission(d, v, apply_to_children=True)
\* and returned True
AppliedToChildren ==
    /\ last.op = "set_directory_permission" /\ "apply_to_children" \in DOMAIN last
    /\ last.ret

\* the record of file f, and the row of directory d, say v
FileSays(f, v) == \A r \in file_metadata : r.file_path = f => r.is_public = int(v)
DirSays(d, v) ==
    \E r \in directory_metadata : r.directory_path = d /\ r.is_public = Some(int(v))

\* the rows of paths that are neither d nor below d are as they were
OutsideUnchanged(d) ==
    /\ {r \in file_metadata : ~IsBelow(d, r.file_path)}
         = {r \in last.pre.file_metadata : ~IsBelow(d, r.file_path)}
    /\ {r \in directory_metadata : r.directory_path # d /\ ~IsBelow(d, r.directory_path)}
         = {r \in last.pre.directory_metadata :
                r.directory_path # d /\ ~IsBelow(d, r.directory_path)}

(* C23: after set_directory_permission(d, v, apply_to_children=True)       *)
(* returned True every file below d that has a record has is_public v,     *)
(* every directory below d has a row with is_public v, d resolves to v,    *)
(* and the rows outside the subtree of d are unchanged.                    *)
C23_AsStated ==
    AppliedToChildren =>
        /\ \A f \in fs_files : IsBelow(last.directory_path, f) => FileSays(f, last.is_public)
        /\ \A e \in fs_dirs : IsBelow(last.directory_path, e) => DirSays(e, last.is_public)
        /\ get_directory_permission(directory_metadata, last.directory_path)
             = Some(last.is_public)
        /\ OutsideUnchanged(last.directory_path)

\* a directory was made private with its children, and the record of a
\* file below it whose name ends in .meta is still public
C23_MetaFileStaysPublic ==
    /\ AppliedToChildren /\ ~last.is_public
    /\ \E r \in file_metadata :
          /\ IsBelow(last.directory_path, r.file_path)
          /\ r.file_path \in fs_files
          /\ r.is_public = 1

\* what holds: the same for the files and directories whose name the walk
\* does not pass over
C23_AppliedToWalkedItems ==
    AppliedToChildren =>
        /\ \A f \in fs_files :
              IsBelow(last.directory_path, f) /\ ~SkippedByWalk(f)
                  => FileSays(f, last.is_public)
        /\ \A e \in fs_dirs :
              IsBelow(last.directory_path, e) /\ ~SkippedByWalk(e)
                  => DirSays(e, last.is_public)
        /\ get_directory_permission(directory_metadata, last.directory_path)
             = Some(last.is_public)
        /\ OutsideUnchanged(last.directory_path)

(* C25: whatever uploads interleave with a cleanup run, the run deletes   *)
(* no row whose file exists on disk when the row is deleted.               *)
C25_AsStated ==
    last.op = "delete_orphan_metadata" =>
        \A r \in last.deleted : r.file_path \notin last.files

\* the file of an orphan was uploaded again after the check: the run
\* deleted the row the upload had just updated, the file is on disk and
\* has no record
C25_ReuploadedFileLosesRecord ==
    /\ last.op = "delete_orphan_metadata"
    /\ \E r \in last.deleted :
          /\ r.file_path \in fs_files
          /\ ~\E r2 \in file_metadata : r2.file_path = r.file_path

\* what holds: every row a run deletes was reported as an orphan by the
\* check of that run
C25_DeletedRowsWereOrphansAtCheck ==
    last.op = "delete_orphan_metadata" =>
        \A r \in last.deleted : r.id \in OrphanIds(last.report.orphan_metadata)

\* the record of file_path has the value the call op set
HasValue(file_path, op, value) ==
    LET loaded == load_metadata(file_metadata, file_tags, file_path)
    IN  ~IsNone(loaded) /\ Val(loaded)[UpdatedKey(op)] = value

\* a call has returned True, and a call of the other operation on the same
\* record returned True while it was in flight
OtherCalls ==
    IF "overlapped" \in DOMAIN last /\ last.ret
    THEN {o \in last.overlapped : o.file_path = last.file_path /\ o.op # last.op}
    ELSE {}

(* C26: when set_file_permission(path, p) and set_file_lock(path, l) run  *)
(* concurrently on one record and both return True, the record has        *)
(* is_public = p and locked = l.                                           *)
C26_AsStated ==
    \A o \in OtherCalls :
        /\ HasValue(last.file_path, last.op, last.value)
        /\ HasValue(o.file_path, o.op, o.value)

\* the lost update: set_file_lock(path, TRUE) returned True while
\* set_file_permission(path, TRUE) was in flight, both returned True and the
\* record is not locked
C26_LockLost ==
    /\ last.op = "set_file_permission" /\ last.step = "return" /\ last.ret
    /\ last.value
    /\ [op |-> "set_file_lock", file_path |-> last.file_path, value |-> TRUE]
           \in last.overlapped
    /\ HasValue(last.file_path, "set_file_permission", TRUE)
    /\ HasValue(last.file_path, "set_file_lock", FALSE)

\* what holds: the call that returns True last leaves its own value
C26_LastWriterWins ==
    (last.op \in SetOps /\ last.step = "return" /\ last.ret)
        => HasValue(last.file_path, last.op, last.value)

\* the rows the first of two real runs in a row deleted
FirstRunDeleted == last.prev[1].pre.file_metadata \ last.pre.file_metadata

\* some backup file under the storage root holds the row r
InSomeBackup(r) ==
    \E n \in DOMAIN backup_files \cap fs_files :
        \E i \in 1..Len(backup_files[n]) :
            /\ backup_files[n][i].id = r.id
            /\ backup_files[n][i].file_path = r.file_path

(* C27: with backup_before_cleanup on, after a second real run every row  *)
(* the first run deleted is still in some backup file, also when both runs *)
(* start in the same second.                                               *)
C27_AsStated ==
    (TwoRealRunsInARow /\ last.prev[1].result.details.backup # None) =>
        \A r \in FirstRunDeleted : InSomeBackup(r)

\* two runs in one second, each deleting a row and writing its backup
\* under the same name: the row of the first run is in no backup file
C27_EarlierBackupOverwritten ==
    /\ TwoRealRunsInARow
    /\ last.prev[1].result.details.backup # None
    /\ last.result.details.backup # None
    /\ last.result.details.backup[1].backup_file
          = last.prev[1].result.details.backup[1].backup_file
    /\ last.prev[1].result.start_time = last.result.start_time
    /\ \E r \in FirstRunDeleted : ~InSomeBackup(r)

\* what holds: the rows of the first run are lost only to a second run that
\* wrote its backup under the same name
C27_LostOnlyToSameName ==
    (/\ TwoRealRunsInARow
     /\ last.prev[1].result.details.backup # None
     /\ \E r \in FirstRunDeleted : ~InSomeBackup(r))
        => /\ last.result.details.backup # None
           /\ last.result.details.backup[1].backup_file
                 = last.prev[1].result.details.backup[1].backup_file

\* the record load_metadata returns for file_path before / after a step
RecordAt(file_path) == load_metadata(file_metadata, file_tags, file_path)
RecordAfter(file_path) == load_metadata(file_metadata', file_tags', file_path)

\* the step is a call of move_metadata
IsMove == last'.op = "move_metadata"

\* the rows at other paths than the two of the call are the same rows
OtherRowsKept ==
    \A p \in MovePaths \ {last'.old_path, last'.new_path} :
        {r \in file_metadata' : r.file_path = p} = {r \in file_metadata : r.file_path = p}

(* C30 as stated: move_metadata(old, new) returns True exactly when a      *)
(* record existed at old and none at new; then the record is at new with   *)
(* its tags and fields but filename, and old is absent; else it returns    *)
(* False and changes nothing.                                              *)
C30_AsStated ==
    [][IsMove =>
        /\ last'.ret = (~IsNone(RecordAt(last'.old_path))
                           /\ IsNone(RecordAt(last'.new_path)))
        /\ last'.ret =>
              /\ IsNone(RecordAfter(last'.old_path))
              /\ RecordAfter(last'.new_path)
                    = Some([Val(RecordAt(last'.old_path)) EXCEPT
                               !.filename = basename(last'.new_path)])
        /\ ~last'.ret => /\ file_metadata' = file_metadata
                         /\ file_tags' = file_tags]_vars

(* C30 amended: move_metadata(old, new) returns True exactly when a record *)
(* existed at old and no other record at new, so also for old = new; then  *)
(* the record is at new with its tags and fields but filename, old is      *)
(* absent unless old = new, and the rows at other paths and all tags are   *)
(* unchanged; else it returns False and changes no record and no tag.      *)
C30_MoveMetadata ==
    [][IsMove =>
        /\ last'.ret = (/\ ~IsNone(RecordAt(last'.old_path))
                        /\ \/ last'.old_path = last'.new_path
                           \/ IsNone(RecordAt(last'.new_path)))
        /\ last'.ret =>
              /\ last'.old_path # last'.new_path
                    => IsNone(RecordAfter(last'.old_path))
              /\ RecordAfter(last'.new_path)
                    = Some([Val(RecordAt(last'.old_path)) EXCEPT
                               !.filename = basename(last'.new_path)])
              /\ file_tags' = file_tags
              /\ OtherRowsKept
        /\ ~last'.ret => /\ file_metadata' = file_metadata
                         /\ file_tags' = file_tags]_vars

\* a tagged record was moved to a free path with another name
C30_Witness ==
    /\ last.op = "move_metadata" /\ last.ret
    /\ basename(last.old_path) # basename(last.new_path)
    /\ ~IsNone(RecordAt(last.new_path))
    /\ Val(RecordAt(last.new_path)).tags # <<>>
    /\ \E r \in file_metadata : r.file_path \notin {last.old_path, last.new_path}

\* a move onto the path of another record returned False
C30_WitnessRefused ==
    /\ last.op = "move_metadata" /\ ~last.ret
    /\ last.old_path # last.new_path
    /\ ~IsNone(RecordAt(last.old_path))
    /\ ~IsNone(RecordAt(last.new_path))

\* a record was moved onto its own path and the call returned True
C30_WitnessSamePath ==
    /\ last.op = "move_metadata" /\ last.ret
    /\ last.old_path = last.new_path

(* C28: no handle_unified_delete call removes from disk a file whose      *)
(* record is locked, be it a delete of the file or of a directory above it. *)
C28_AsStated ==
    last.op = "handle_unified_delete" => last.removed \cap last.locked = {}

\* the delete of an unlocked directory succeeded and removed a file below
\* it whose record is locked and is still in the store
C28_LockedFileRemovedWithDirectory ==
    /\ last.op = "handle_unified_delete" /\ last.success
    /\ \E f \in last.removed \cap last.locked :
          /\ IsBelow(last.filename, f)
          /\ \E r \in file_metadata : r.file_path = f /\ bool(r.locked)

\* what holds: the delete of the locked file itself is refused, and the
\* delete of a directory whose own record is locked is refused
C28_OwnLockRefuses ==
    last.op = "handle_unified_delete" =>
        /\ last.filename \in last.locked => ~last.success /\ last.removed = {}
        /\ (last.filename \in fs_dirs
              /\ is_directory_locked(directory_metadata, last.filename))
             => ~last.success /\ last.removed = {}

\* the chunk files the temporary directory of the last call's file holds
ChunksNow == ChunksOf(temp_upload, md5(last.filename))

\* the chunks chunk_0 .. chunk_{total_chunks-1} are all in dir
AllChunksIn(dir, total_chunks) ==
    \A i \in 0..(total_chunks - 1) : ChunkName(i) \in DOMAIN dir

(* C29: handle_chunk_complete either succeeds, leaving the target equal to *)
(* the chunks 0 .. total_chunks-1 in index order and no temporary          *)
(* directory, or fails leaving no target file behind and the uploaded      *)
(* chunks in place.                                                        *)
C29_AsStated ==
    last.op = "handle_chunk_complete" =>
        IF last.success
        THEN /\ last.filename \in fs_files
             /\ AllChunksIn(last.pre.temp_upload[md5(last.filename)], last.total_chunks)
             /\ file_data[last.filename]
                   = MergedChunks(last.pre.temp_upload[md5(last.filename)], 0,
                                  last.total_chunks)
             /\ md5(last.filename) \notin DOMAIN temp_upload
        ELSE /\ fs_files = last.pre.fs_files
             /\ temp_upload = last.pre.temp_upload

\* after a MISSING_CHUNK failure the missing chunk was uploaded and
\* complete called again: every chunk is there, the call fails with
\* FILE_EXISTS on the partial file the failed call left
C29_RetryFindsPartialFile ==
    /\ last.op = "handle_chunk_complete" /\ last.code = "FILE_EXISTS"
    /\ AllChunksIn(ChunksNow, last.total_chunks)
    /\ last.filename \in DOMAIN file_data
    /\ file_data[last.filename] # MergedChunks(ChunksNow, 0, last.total_chunks)

\* what holds: a call that succeeds leaves the chunks merged in index
\* order and no temporary directory, and a call that fails keeps every
\* chunk and creates a file only with MISSING_CHUNK
C29_SuccessMergesAndFailureKeepsChunks ==
    last.op = "handle_chunk_complete" =>
        IF last.success
        THEN /\ last.filename \in fs_files
             /\ AllChunksIn(last.pre.temp_upload[md5(last.filename)], last.total_chunks)
             /\ file_data[last.filename]
                   = MergedChunks(last.pre.temp_upload[md5(last.filename)], 0,
                                  last.total_chunks)
             /\ md5(last.filename) \notin DOMAIN temp_upload
        ELSE /\ temp_upload = last.pre.temp_upload
             /\ fs_files # last.pre.fs_files => last.code = "MISSING_CHUNK"

====
